---- MODULE Spec2Model ----
(***************************************************************************)
(* Scene-creator agent: the chat_node -> tool_node -> process_results      *)
(* control loop of src/agent/agent.py, its six tool executors, and the     *)
(* image synthesis client (generate_image / edit_image).                   *)
(*                                                                         *)
(* Modelling conventions                                                   *)
(*   - a Python dict is a record; "k in d" is  k \in DOMAIN d; an optional *)
(*     argument left at its default None is a key absent from the record;  *)
(*   - an image reference (a URL string) is the sequence of its segments   *)
(*     split on "?": <<file>> is <base>/generated/<file>, <<file, t>> is   *)
(*     <base>/generated/<file>?t=<t>; None is the empty sequence;          *)
(*   - uuid4() is a counter: every draw is a value never drawn before;     *)
(*   - the generated directory is a function  file -> bytes, the bytes     *)
(*     being named by the write that left them: n > 0 for the whole bytes  *)
(*     of the file's n-th write, -n for a mix of the bytes of the n-th     *)
(*     write and of what it overwrote (a torn read, or writes that raced); *)
(*   - a coroutine advances one step per suspension point (await): the     *)
(*     step runs the code from one await to the next.                      *)
(***************************************************************************)
EXTENDS Integers, Sequences, FiniteSets, TLC

VARIABLES
    pc,           \* node about to run: "chat", "tools", "merge", "end", "failed"
    characters,   \* AgentState.characters
    backgrounds,  \* AgentState.backgrounds
    scenes,       \* AgentState.scenes
    messages,     \* the ToolMessages of AgentState.messages, oldest first
    tool_calls,   \* tool_calls of the last AI message
    running,      \* tool_node: one record per tool call, its progress and result
    files,        \* GENERATED_DIR: file -> the bytes it holds
    uuid,         \* number of uuid4() draws so far
    clock,        \* time.time() in ms, as it was last read
    dispatched,   \* number of tool calls handed to tool_node in this run
    upsets,       \* number of times a collaborator went against its instructions
    genIn,        \* synthesis client called on its own: the call's inputs
    genOut,       \* synthesis client called on its own: the call's progress
    apiKey,       \* AgentState.apiKey
    uploads       \* number of files POST /upload has stored

vars == <<pc, characters, backgrounds, scenes, messages, tool_calls, running,
          files, uuid, clock, dispatched, upsets, genIn, genOut, apiKey,
          uploads>>

\* ------------------------------------------------------------------ bounds

\* tool invocations handed to tool_node in one session
MaxToolCalls == 4
\* tool invocations in one policy response
MaxCalls == 2
\* uuid4() draws in one session
MaxUuid == 7
\* what the collaborators do against their instructions in one session:
\* service answers other than an image, tool invocations naming an id that
\* does not exist, policy responses holding more than one tool invocation
\* (the model is bound with parallel_tool_calls=False and told to call one
\* tool at a time), and uploads that cannot be stored
MaxUpsets == 2
\* tool invocations and upsets of one session, taken together
MaxEvents == 5
\* answers the scripted service gives before it repeats its last one
ScriptLen == 3
\* files stored through POST /upload in one session
MaxUploads == 1

\* ------------------------------------------------------- program constants

max_retries == 3
base_wait == 2

\* Python None, as an image reference and as edit_image's "no result"
None == <<>>

\* ---------------------------------------------------------------- helpers

Range(s) == {s[i] : i \in 1..Len(s)}

RECURSIVE SeqSum(_)
SeqSum(s) == IF s = <<>> THEN 0 ELSE Head(s) + SeqSum(Tail(s))

IsPrefix(s, t) == Len(s) <= Len(t) /\ SubSeq(t, 1, Len(s)) = s

\* d.get(k, default)
Get(d, k, default) == IF k \in DOMAIN d THEN d[k] ELSE default

\* next((c for c in coll if c["id"] == id), None): the index of the first
\* entry with that id, 0 when there is none
FindIndex(coll, id) ==
    IF \E i \in 1..Len(coll) : coll[i].id = id
    THEN CHOOSE i \in 1..Len(coll) :
            /\ coll[i].id = id
            /\ \A j \in 1..(i - 1) : coll[j].id # id
    ELSE 0

Ids(coll) == [i \in 1..Len(coll) |-> coll[i].id]

\* ------------------------------------------------------- synthesis service

\* What the remote service answers to one request:
\*   image       2xx with an inline image part whose data decodes
\*   bad_image   2xx with an inline image part whose data is not base64
\*               (b64decode raises)
\*   garbled     2xx whose body is not JSON (response.json() raises)
\*   noimage     2xx without an image part
\*   rate        429
\*   http_error  another non-2xx status
\*   net_fault   no response: timeout or connection fault (httpx raises)
Answers ==
    {"image", "bad_image", "garbled", "noimage", "rate", "http_error",
     "net_fault"}

Scripts == [1..ScriptLen -> Answers]

\* the stub's answer to the n-th request of one call
ServiceAnswer(script, n) ==
    IF n <= Len(script) THEN script[n] ELSE script[Len(script)]

\* ------------------------------------------------------- synthesis client

\* get_image_path: the query is stripped, the base URL and /generated/ prefix
\* removed; what is left names the file in GENERATED_DIR
get_image_path(image_url) == image_url[1]

\* bytes that are a mix of the n-th write of a file and of what it overwrote
Torn(n) == 0 - n

\* the write that left the bytes v
Writes(v) == IF v < 0 THEN 0 - v ELSE v

Post == [ev |-> "post", t |-> 0]
Sleep(t) == [ev |-> "sleep", t |-> t]

\* One call of generate_image (op "generate") or edit_image (op "edit"), about
\* to run its first line. The record holds the coroutine's position and
\* locals:
\*   phase    start, reading (await to_thread(read_image)), awaiting (await
\*            client.post), sleeping (await asyncio.sleep), writing (await
\*            to_thread(save_image)), closing (the exit of `async with
\*            httpx.AsyncClient` awaits the close of the connection), done
\*   resume   while closing: the phase the call is in once the close is over
\*   todo     the input references not yet read
\*   seen     the bytes the file held when the read in progress began
\*   parts    the request's parts built so far: [file, data] for an image,
\*            [text] for the prompt
\*   attempt  the retry loop's counter
\*   trace    the requests made and the sleeps taken, in order
\*   file     the file the call writes: the one edit_image overwrites, the
\*            one generate_image drew a uuid4 name for (0: none yet)
\*   raced    another write of the same file overlapped this one
\*   last     the service's answer to the last request
\*   url, raised, saved   the outcome: the reference returned (None when
\*            there is no result), an exception left the call, a file was
\*            written
ClientCall(op, prompt, input_images) ==
    [op |-> op, phase |-> "start", prompt |-> prompt, todo |-> input_images,
     seen |-> 0, parts |-> <<>>, attempt |-> 0, trace |-> <<>>, file |-> 0,
     raced |-> FALSE, last |-> "none", url |-> None, raised |-> FALSE,
     saved |-> FALSE, resume |-> "none"]

\* Path.read_bytes in a worker thread (lines 113-116 and 257-260), for a read
\* that began when the file held `seen`: the bytes it can return. writers is
\* the set of files a write in another worker thread is in progress on: its
\* thread may have written nothing yet, a part, or the whole file, whose
\* writer has not resumed (fs still holds the bytes from before). A read that
\* no write overlapped returns what the file holds; one that a write
\* overlapped returns the bytes from before, the bytes from after, or a mix.
read_bytes(file, seen, fs, writers) ==
    LET held == fs[file]
        next == Writes(held) + 1
    IN  {held}
        \cup (IF held # seen THEN {seen, Torn(Writes(held))} ELSE {})
        \cup (IF file \in writers THEN {next, Torn(next)} ELSE {})

\* Path.write_bytes in a worker thread (lines 179-180 and 300-303): the bytes
\* the file can hold when the write is over
write_bytes(file, raced, fs) ==
    LET n == IF file \in DOMAIN fs THEN Writes(fs[file]) + 1 ELSE 1
    IN  {n} \cup (IF raced THEN {Torn(n)} ELSE {})

\* the directory once `file` holds `bytes`
Saved(fs, file, bytes) ==
    IF file \in DOMAIN fs THEN [fs EXCEPT ![file] = bytes]
    ELSE fs @@ (file :> bytes)

\* generate_image, lines 104-111: the references whose file does not exist
\* are passed over
RECURSIVE skip_missing(_, _)
skip_missing(input_images, fs) ==
    IF input_images = <<>> THEN <<>>
    ELSE LET base_img_path == <<Head(input_images)[1]>>
             file_path == get_image_path(base_img_path)
         IN  IF file_path \in DOMAIN fs THEN input_images
             ELSE skip_missing(Tail(input_images), fs)

\* generate_image, lines 99-152, from its first line or from the return of a
\* read: up to the next read, or, when no input is left, up to the first
\* request (the text prompt is the last part)
generate_image_parts(c, fs) ==
    LET todo == skip_missing(c.todo, fs)
    IN  IF todo # <<>>
        THEN [c EXCEPT !.phase = "reading", !.todo = todo,
                       !.seen = fs[get_image_path(Head(todo))]]
        ELSE [c EXCEPT !.phase = "awaiting", !.todo = <<>>, !.seen = 0,
                       !.parts = Append(@, [text |-> c.prompt]),
                       !.trace = Append(@, Post)]

\* read_image that puts the new part in front of those collected so far
read_image_prepended(c, data) ==
    [c EXCEPT !.parts = <<[file |-> c.todo[1][1], data |-> data]>> \o @,
              !.todo = Tail(@), !.seen = 0]

\* lines 116-125 (and 260-273): the read returned `data`; one inline_data part
\* is added after those collected so far
read_image(c, data) ==
    [c EXCEPT !.parts = Append(@, [file |-> get_image_path(Head(c.todo)),
                                   data |-> data]),
              !.todo = Tail(@), !.seen = 0]

\* wait_time that counts attempts from 1 instead of 0
wait_time_late(attempt) == 2 * (2 ^ (attempt + 1))

\* line 156
wait_time(attempt) == base_wait * (2 ^ attempt)

\* generate_image_answer that backs off and tries again on every non-2xx status
generate_image_answer_retry_any_status(c, answer, filename) ==
    IF answer \in {"rate", "http_error"}
    THEN [c EXCEPT !.last = answer, !.phase = "sleeping",
                   !.trace = Append(@, [ev |-> "sleep",
                                        t |-> 2 * (2 ^ c.attempt)])]
    ELSE IF answer = "image"
    THEN [c EXCEPT !.last = answer, !.phase = "writing", !.file = filename]
    ELSE [c EXCEPT !.last = answer, !.phase = "done"]

\* generate_image, lines 152-196: the service answered the request in flight.
\* filename is the uuid4 line 175 draws for the output file when the answer
\* holds an image part. Lines 165-180 are inside the try of line 151: what
\* they raise ends in `except Exception: return None`.
generate_image_answer(c, answer, filename) ==
    CASE answer = "rate" ->
            [c EXCEPT !.last = answer, !.phase = "sleeping",
                      !.trace = Append(@, Sleep(wait_time(c.attempt)))]
      [] answer = "image" ->
            [c EXCEPT !.last = answer, !.phase = "writing", !.file = filename]
      [] answer = "bad_image" ->
            \* the name is drawn (175), b64decode raises (177): return None
            [c EXCEPT !.last = answer, !.phase = "done", !.file = filename]
      [] answer = "noimage" ->
            [c EXCEPT !.last = answer, !.phase = "done"]
      [] answer = "http_error" ->
            [c EXCEPT !.last = answer, !.phase = "done", !.raised = TRUE]
      [] OTHER ->
            \* response.json() raises (165), or httpx raised the fault (152):
            \* except Exception: return None
            [c EXCEPT !.last = answer, !.phase = "done"]

\* generate_image_wake that makes one more attempt than max_retries allows
generate_image_wake_extra(c) ==
    IF c.attempt + 1 <= 3
    THEN [c EXCEPT !.attempt = @ + 1, !.phase = "awaiting",
                   !.trace = Append(@, [ev |-> "post", t |-> 0])]
    ELSE [c EXCEPT !.attempt = @ + 1, !.phase = "done"]

\* generate_image, lines 149, 159 and 198-199: the sleep is over; the loop
\* makes its next request, or is exhausted and the call returns None
generate_image_wake(c) ==
    IF c.attempt + 1 < max_retries
    THEN [c EXCEPT !.attempt = @ + 1, !.phase = "awaiting",
                   !.trace = Append(@, Post)]
    ELSE [c EXCEPT !.attempt = @ + 1, !.phase = "done"]

\* generate_image, lines 180-182: the file is written
generate_image_saved(c) ==
    [c EXCEPT !.phase = "done", !.url = <<c.file>>, !.saved = TRUE]

\* edit_image, lines 250-254: the file the reference names, None when it
\* does not exist
edit_image_source(image_url, fs) ==
    LET file_path == get_image_path(image_url)
    IN  IF file_path \in DOMAIN fs THEN <<file_path>> ELSE None

\* edit_image, lines 250-260: up to the read, or to the return of None
edit_image_start(c, fs) ==
    IF edit_image_source(Head(c.todo), fs) = None
    THEN [c EXCEPT !.phase = "done"]
    ELSE [c EXCEPT !.phase = "reading",
                   !.seen = fs[get_image_path(Head(c.todo))],
                   !.file = get_image_path(Head(c.todo))]

\* edit_image, lines 260-288: the read returned; the request holds the image
\* and the edit prompt
edit_image_request(c, data) ==
    [read_image(c, data) EXCEPT !.phase = "awaiting",
         !.parts = Append(@, [text |-> c.prompt]),
         !.trace = Append(@, Post)]

\* edit_image_answer that takes a rate limit as generate_image does: it
\* sleeps and asks again
edit_image_answer_retry(c, answer) ==
    IF answer = "rate"
    THEN [c EXCEPT !.last = answer, !.phase = "sleeping",
                   !.trace = Append(@, [ev |-> "sleep", t |-> 2])]
    ELSE IF answer = "image"
    THEN [c EXCEPT !.last = answer, !.phase = "writing"]
    ELSE IF answer = "noimage"
    THEN [c EXCEPT !.last = answer, !.phase = "done"]
    ELSE [c EXCEPT !.last = answer, !.phase = "done", !.raised = TRUE]

\* edit_image, lines 288-303: one request, no retry, and no handler: what
\* lines 288-298 raise leaves edit_image with the file as it was
edit_image_answer(c, answer) ==
    CASE answer = "image" ->
            [c EXCEPT !.last = answer, !.phase = "writing"]
      [] answer = "noimage" ->
            [c EXCEPT !.last = answer, !.phase = "done"]
      [] answer \in {"bad_image", "garbled"} ->
            \* response.json() raises (290), or b64decode does (298)
            [c EXCEPT !.last = answer, !.phase = "done", !.raised = TRUE]
      [] OTHER ->
            \* raise_for_status (289), or the fault httpx raised (288)
            [c EXCEPT !.last = answer, !.phase = "done", !.raised = TRUE]

\* edit_image_saved that makes a new timestamped file name of the old one
edit_image_saved_renamed(c, now) ==
    [c EXCEPT !.phase = "done", !.url = <<c.file + now, now>>, !.saved = TRUE]

\* edit_image, lines 303-307: the file is overwritten in place and the
\* reference gets the cache-busting timestamp
edit_image_saved(c, now) ==
    [c EXCEPT !.phase = "done", !.url = <<c.file, now>>, !.saved = TRUE]

\* time.time() in ms (line 307), last read as `last`: a millisecond has gone
\* by since, or none
time_time(last) == {last, last + 1}

\* Leaving `async with httpx.AsyncClient` (lines 148 and 287) on the way to
\* `out`: when the client holds an open connection its exit awaits the close
\* and the call returns to the event loop before it runs on; when it holds
\* none the call runs on at once. A request that got no response leaves no
\* connection open.
aexit(out, open) ==
    IF open /\ out.last # "net_fault"
    THEN [out EXCEPT !.phase = "closing", !.resume = out.phase]
    ELSE out

\* the close of the connection is over: the call runs on from the exit
aclose(c) == [c EXCEPT !.phase = c.resume, !.resume = "none"]

\* One step of a call of the synthesis client: the code from one suspension
\* point to the next, with what the step leaves in the directory, the uuid4
\* counter and the clock.
\*   now     what time.time() gives in this step
\*   answer  the service's answer to the request in flight
\*   data    the bytes the read in progress returned
\*   bytes   the bytes the write in progress left
\*   open    a connection is open when the step leaves the client
\* generate_image leaves the client on every return and raise (lines 182,
\* 183, 193, 196, 198); edit_image leaves it once the request is answered
\* (line 290), before it writes.
client_step(c, fs, id, now, answer, data, bytes, open) ==
    CASE c.phase = "start" ->
            [call |-> IF c.op = "generate" THEN generate_image_parts(c, fs)
                      ELSE edit_image_start(c, fs),
             files |-> fs, uuid |-> id, clock |-> now]
      [] c.phase = "reading" ->
            [call |-> IF c.op = "generate"
                      THEN generate_image_parts(read_image(c, data), fs)
                      ELSE edit_image_request(c, data),
             files |-> fs, uuid |-> id, clock |-> now]
      [] c.phase = "awaiting" ->
            IF c.op = "generate"
            THEN LET out == generate_image_answer(c, answer, id + 1)
                 IN  [call |-> IF out.phase = "done" THEN aexit(out, open)
                               ELSE out,
                      files |-> fs,
                      uuid |-> IF out.file = id + 1 THEN id + 1 ELSE id,
                      clock |-> now]
            ELSE [call |-> aexit(edit_image_answer(c, answer), open),
                  files |-> fs, uuid |-> id, clock |-> now]
      [] c.phase = "sleeping" ->
            LET out == generate_image_wake(c)
            IN  [call |-> IF out.phase = "done" THEN aexit(out, open) ELSE out,
                 files |-> fs, uuid |-> id, clock |-> now]
      [] c.phase = "writing" ->
            IF c.op = "generate"
            THEN [call |-> aexit(generate_image_saved(c), open),
                  files |-> Saved(fs, c.file, bytes), uuid |-> id,
                  clock |-> now]
            ELSE [call |-> edit_image_saved(c, now),
                  files |-> Saved(fs, c.file, bytes), uuid |-> id,
                  clock |-> now]
      [] c.phase = "closing" ->
            [call |-> aclose(c), files |-> fs, uuid |-> id, clock |-> now]
      [] OTHER ->
            [call |-> c, files |-> fs, uuid |-> id, clock |-> now]

Attempts(trace) == Cardinality({i \in 1..Len(trace) : trace[i].ev = "post"})

Sleeps(trace) ==
    LET idx == {i \in 1..Len(trace) : trace[i].ev = "sleep"}
        RECURSIVE pick(_)
        pick(i) == IF i > Len(trace) THEN <<>>
                   ELSE IF i \in idx THEN <<trace[i].t>> \o pick(i + 1)
                   ELSE pick(i + 1)
    IN  pick(1)

\* ---------------------------------------------------------- tool executors

\* The state a tool sees through InjectedState
Snapshot == [characters |-> characters, backgrounds |-> backgrounds,
             scenes |-> scenes]

Error(reason) == [error |-> reason]

IsError(r) == "error" \in DOMAIN r

\* create_character that reports a missing image as the edit tools do
create_character_strict(args, image_url, character_id) ==
    IF image_url = <<>> THEN [error |-> "Failed to generate image"]
    ELSE [id |-> character_id, name |-> args.name,
          description |-> args.description, prompt |-> args.prompt,
          imageUrl |-> image_url]

\* create_character, lines 337-345 (create_background, lines 371-379, is the
\* same code)
create_character(args, image_url, character_id) ==
    [id |-> character_id, name |-> args.name, description |-> args.description,
     prompt |-> args.prompt, imageUrl |-> image_url]

create_background(args, image_url, background_id) ==
    [id |-> background_id, name |-> args.name, description |-> args.description,
     prompt |-> args.prompt, imageUrl |-> image_url]

\* create_scene, lines 410-417: the loop over character_ids, which returns at
\* the first id that is not found or has no image
RECURSIVE create_scene_characters(_, _)
create_scene_characters(character_ids, chars) ==
    IF character_ids = <<>> THEN [input_images |-> <<>>]
    ELSE LET i == FindIndex(chars, Head(character_ids))
         IN  IF i = 0 THEN Error("Character not found")
             ELSE IF Get(chars[i], "imageUrl", None) = None
                  THEN Error("Character has no image")
             ELSE LET rest == create_scene_characters(Tail(character_ids), chars)
                  IN  IF IsError(rest) THEN rest
                      ELSE [input_images |->
                                <<chars[i].imageUrl>> \o rest.input_images]

\* create_scene_check that skips the ids that do not resolve, as edit_scene does
create_scene_check_lenient(args, st) ==
    LET img(id, coll) ==
            IF FindIndex(coll, id) = 0 THEN None
            ELSE Get(coll[FindIndex(coll, id)], "imageUrl", None)
        cand == [k \in 1..Len(args.character_ids) |->
                    img(args.character_ids[k], st.characters)]
                \o <<img(args.background_id, st.backgrounds)>>
        Has(u) == u # None
        imgs == SelectSeq(cand, Has)
    IN  IF imgs = <<>> THEN Error("No source images found")
        ELSE [input_images |-> imgs]

\* create_scene, lines 403-425: an error record, or the images to compose
create_scene_check(args, st) ==
    LET cs == create_scene_characters(args.character_ids, st.characters)
        b == FindIndex(st.backgrounds, args.background_id)
    IN  IF IsError(cs) THEN cs
        ELSE IF b = 0 THEN Error("Background not found")
        ELSE IF Get(st.backgrounds[b], "imageUrl", None) = None
             THEN Error("Background has no image")
        ELSE [input_images |->
                  Append(cs.input_images, st.backgrounds[b].imageUrl)]

\* create_scene that returns the scene without its sources
create_scene_unlinked(args, image_url, scene_id) ==
    [id |-> scene_id, name |-> args.name, description |-> args.description,
     characterIds |-> <<>>, backgroundId |-> args.background_id,
     prompt |-> args.prompt, imageUrl |-> image_url]

\* create_scene, lines 433-443
create_scene(args, image_url, scene_id) ==
    [id |-> scene_id, name |-> args.name, description |-> args.description,
     characterIds |-> args.character_ids, backgroundId |-> args.background_id,
     prompt |-> args.prompt, imageUrl |-> image_url]

\* edit_character_check that, for an entry without image, goes on with a
\* reference made of the character's id
edit_character_check_by_id(args, st) ==
    LET i == FindIndex(st.characters, args.character_id)
    IN  IF i = 0 THEN Error("Character not found")
        ELSE IF Get(st.characters[i], "imageUrl", None) = None
             THEN [entry |-> [st.characters[i] EXCEPT
                                 !.imageUrl = <<args.character_id>>]]
        ELSE [entry |-> st.characters[i]]

\* edit_character, lines 461-468 (edit_background, lines 508-515): an error
\* record, or the entry to edit
edit_character_check(args, st) ==
    LET i == FindIndex(st.characters, args.character_id)
    IN  IF i = 0 THEN Error("Character not found")
        ELSE IF Get(st.characters[i], "imageUrl", None) = None
             THEN Error("Character has no image to edit")
        ELSE [entry |-> st.characters[i]]

edit_background_check(args, st) ==
    LET i == FindIndex(st.backgrounds, args.background_id)
    IN  IF i = 0 THEN Error("Background not found")
        ELSE IF Get(st.backgrounds[i], "imageUrl", None) = None
             THEN Error("Background has no image to edit")
        ELSE [entry |-> st.backgrounds[i]]

\* edit_character, lines 480-490 (edit_background, lines 527-537)
edit_character(char, edited_url) ==
    IF edited_url = None THEN Error("Failed to edit image")
    ELSE [id |-> char.id, name |-> char.name, description |-> char.description,
          prompt |-> Get(char, "prompt", ""), imageUrl |-> edited_url,
          edited |-> TRUE]

edit_background(bg, edited_url) ==
    IF edited_url = None THEN Error("Failed to edit image")
    ELSE [id |-> bg.id, name |-> bg.name, description |-> bg.description,
          prompt |-> Get(bg, "prompt", ""), imageUrl |-> edited_url,
          edited |-> TRUE]

\* edit_scene_char_ids that keeps the scene's own characters
edit_scene_char_ids_kept(args, scene) ==
    IF "characterIds" \in DOMAIN scene THEN scene.characterIds ELSE <<>>

\* edit_scene, lines 573-574: the effective ids
edit_scene_char_ids(args, scene) ==
    IF "new_character_ids" \in DOMAIN args THEN args.new_character_ids
    ELSE Get(scene, "characterIds", <<>>)

edit_scene_bg_id(args, scene) ==
    IF "new_background_id" \in DOMAIN args THEN args.new_background_id
    ELSE Get(scene, "backgroundId", 0)

\* edit_scene, lines 578-582: the images of the ids that resolve
RECURSIVE edit_scene_characters(_, _)
edit_scene_characters(char_ids, chars) ==
    IF char_ids = <<>> THEN <<>>
    ELSE LET i == FindIndex(chars, Head(char_ids))
             rest == edit_scene_characters(Tail(char_ids), chars)
         IN  IF i # 0 /\ Get(chars[i], "imageUrl", None) # None
             THEN <<chars[i].imageUrl>> \o rest
             ELSE rest

\* edit_scene, lines 576-587
edit_scene_images(char_ids, bg_id, st) ==
    LET b == FindIndex(st.backgrounds, bg_id)
    IN  edit_scene_characters(char_ids, st.characters) \o
        (IF b # 0 /\ Get(st.backgrounds[b], "imageUrl", None) # None
         THEN <<st.backgrounds[b].imageUrl>> ELSE <<>>)

\* edit_scene_check that tests the sources before either branch and reports a
\* scene without image as a failed edit
edit_scene_check_sources_only(args, st) ==
    LET i == FindIndex(st.scenes, args.scene_id)
    IN  IF i = 0 THEN [error |-> "Scene not found"]
        ELSE LET scene == st.scenes[i]
                 char_ids == edit_scene_char_ids(args, scene)
                 bg_id == edit_scene_bg_id(args, scene)
                 input_images == edit_scene_images(char_ids, bg_id, st)
             IN  IF input_images = <<>>
                 THEN [error |-> "No source images found for regeneration"]
                 ELSE IF args.regenerate_from_sources
                 THEN [entry |-> scene, char_ids |-> char_ids,
                       bg_id |-> bg_id, input_images |-> input_images]
                 ELSE IF Get(scene, "imageUrl", <<>>) = <<>>
                 THEN [error |-> "Failed to edit image"]
                 ELSE [entry |-> scene]

\* edit_scene, lines 561-590 and 613-614: an error record, or what the
\* selected branch hands the synthesis client
edit_scene_check(args, st) ==
    LET i == FindIndex(st.scenes, args.scene_id)
    IN  IF i = 0 THEN Error("Scene not found")
        ELSE LET scene == st.scenes[i]
                 char_ids == edit_scene_char_ids(args, scene)
                 bg_id == edit_scene_bg_id(args, scene)
                 input_images == edit_scene_images(char_ids, bg_id, st)
             IN  IF args.regenerate_from_sources
                 THEN IF input_images = <<>>
                      THEN Error("No source images found for regeneration")
                      ELSE [entry |-> scene, char_ids |-> char_ids,
                            bg_id |-> bg_id, input_images |-> input_images]
                 ELSE IF Get(scene, "imageUrl", None) = None
                      THEN Error("Scene has no image to edit")
                      ELSE [entry |-> scene]

\* edit_scene, lines 598-610: the regenerated scene
edit_scene_regenerated(args, plan, new_url) ==
    IF new_url = None THEN Error("Failed to regenerate scene")
    ELSE [id |-> plan.entry.id, name |-> plan.entry.name,
          description |-> plan.entry.description,
          characterIds |-> plan.char_ids, backgroundId |-> plan.bg_id,
          prompt |-> args.edit_description, imageUrl |-> new_url,
          edited |-> TRUE]

\* edit_scene, lines 625-637: the directly edited scene
edit_scene_edited(scene, edited_url) ==
    IF edited_url = None THEN Error("Failed to edit image")
    ELSE [id |-> scene.id, name |-> scene.name,
          description |-> scene.description,
          characterIds |-> Get(scene, "characterIds", <<>>),
          backgroundId |-> Get(scene, "backgroundId", 0),
          prompt |-> Get(scene, "prompt", ""), imageUrl |-> edited_url,
          edited |-> TRUE]

\* the prompt the edit tools hand edit_image (lines 476, 523 and 621)
edit_prompt(kind, edit_description, kept) ==
    "Edit this " \o kind \o " image: " \o edit_description
    \o ". Keep the same " \o kept \o " but apply the requested changes."

backend_tool_names == {"create_character", "create_background", "create_scene",
                       "edit_character", "edit_background", "edit_scene"}

\* What a tool does up to its first request to the service:
\*   return    it returns `result` without calling the synthesis client
\*   generate  it calls generate_image(prompt, input_images)
\*   edit      it calls edit_image(image_url, prompt)
ToolPlan(call, st) ==
    LET args == call.args
    IN  CASE call.name \in {"create_character", "create_background"} ->
                [do |-> "generate", prompt |-> args.prompt, input_images |-> <<>>]
          [] call.name = "create_scene" ->
                LET chk == create_scene_check(args, st)
                IN  IF IsError(chk) THEN [do |-> "return", result |-> chk]
                    ELSE [do |-> "generate", prompt |-> args.prompt,
                          input_images |-> chk.input_images]
          [] call.name = "edit_character" ->
                LET chk == edit_character_check(args, st)
                IN  IF IsError(chk) THEN [do |-> "return", result |-> chk]
                    ELSE [do |-> "edit", image_url |-> chk.entry.imageUrl,
                          prompt |-> edit_prompt("character",
                                                 args.edit_description,
                                                 "character"),
                          entry |-> chk.entry]
          [] call.name = "edit_background" ->
                LET chk == edit_background_check(args, st)
                IN  IF IsError(chk) THEN [do |-> "return", result |-> chk]
                    ELSE [do |-> "edit", image_url |-> chk.entry.imageUrl,
                          prompt |-> edit_prompt("background",
                                                 args.edit_description,
                                                 "environment"),
                          entry |-> chk.entry]
          [] OTHER ->
                LET chk == edit_scene_check(args, st)
                IN  IF IsError(chk) THEN [do |-> "return", result |-> chk]
                    ELSE IF args.regenerate_from_sources
                    THEN [do |-> "generate", prompt |-> args.edit_description,
                          input_images |-> chk.input_images,
                          entry |-> chk.entry, char_ids |-> chk.char_ids,
                          bg_id |-> chk.bg_id]
                    ELSE [do |-> "edit", image_url |-> chk.entry.imageUrl,
                          prompt |-> edit_prompt("scene", args.edit_description,
                                                 "composition"),
                          entry |-> chk.entry]

\* The record a tool returns once the synthesis client has answered with
\* `url`; id is the uuid4 a create tool draws for the new entity
ToolResult(call, plan, url, id) ==
    CASE call.name = "create_character" -> create_character(call.args, url, id)
      [] call.name = "create_background" -> create_background(call.args, url, id)
      [] call.name = "create_scene" -> create_scene(call.args, url, id)
      [] call.name = "edit_character" -> edit_character(plan.entry, url)
      [] call.name = "edit_background" -> edit_background(plan.entry, url)
      [] OTHER ->
            IF call.args.regenerate_from_sources
            THEN edit_scene_regenerated(call.args, plan, url)
            ELSE edit_scene_edited(plan.entry, url)

\* ------------------------------------------------------------- merge node

\* ToolMessage content: the tool's dict serialised to JSON text, or text that
\* is not JSON (tool_node's own error text)
json_dumps(result) == [json |-> result]

NotJson(text) == [raw |-> text]

\* json.loads: the dict, or JSONDecodeError
json_loads(content) ==
    IF "json" \in DOMAIN content
    THEN [ok |-> TRUE, value |-> content.json]
    ELSE [ok |-> FALSE]

\* append_if_absent without the test for the id
append_always(coll, result) == Append(coll, result)

\* append_if_absent that looks for the id in the last entry only
append_if_last_differs(coll, result) ==
    IF coll # <<>> /\ coll[Len(coll)].id = result.id
    THEN coll
    ELSE Append(coll, result)

\* append_if_absent that puts the new entry first
prepend_if_absent(coll, result) ==
    IF \E i \in 1..Len(coll) : coll[i].id = result.id
    THEN coll
    ELSE <<result>> \o coll

\* process_tool_results, lines 806-807 (810, 813): append unless the id is there
append_if_absent(coll, result) ==
    IF \E i \in 1..Len(coll) : coll[i].id = result.id
    THEN coll
    ELSE Append(coll, result)

\* replace_by_id as an upsert: a result whose id is absent is appended
replace_or_append(coll, result) ==
    IF \E i \in 1..Len(coll) : coll[i].id = result.id
    THEN [i \in 1..Len(coll) |->
             IF coll[i].id = result.id THEN result ELSE coll[i]]
    ELSE Append(coll, result)

\* process_tool_results, lines 816-819 (821-824, 826-829): overwrite the first
\* entry with the result's id
replace_by_id(coll, result) ==
    LET i == FindIndex(coll, result.id)
    IN  IF i = 0 THEN coll ELSE [coll EXCEPT ![i] = result]

\* "id" in result and not result.get("error")
IsEditSuccess(result) ==
    "id" \in DOMAIN result /\ Get(result, "error", "") = ""

\* process_tool_results, lines 795-832: what one message does to the store
merge_message(store, msg) ==
    LET parsed == json_loads(msg.content)
    IN  IF ~parsed.ok THEN store
        ELSE LET result == parsed.value
             IN  CASE msg.name = "create_character" /\ "id" \in DOMAIN result ->
                        [store EXCEPT !.characters = append_if_absent(@, result)]
                   [] msg.name = "create_background" /\ "id" \in DOMAIN result ->
                        [store EXCEPT !.backgrounds = append_if_absent(@, result)]
                   [] msg.name = "create_scene" /\ "id" \in DOMAIN result ->
                        [store EXCEPT !.scenes = append_if_absent(@, result)]
                   [] msg.name = "edit_character" /\ IsEditSuccess(result) ->
                        [store EXCEPT !.characters = replace_by_id(@, result)]
                   [] msg.name = "edit_background" /\ IsEditSuccess(result) ->
                        [store EXCEPT !.backgrounds = replace_by_id(@, result)]
                   [] msg.name = "edit_scene" /\ IsEditSuccess(result) ->
                        [store EXCEPT !.scenes = replace_by_id(@, result)]
                   [] OTHER -> store

\* merge_messages whose scan ends at the first message that is not JSON (the
\* try around the loop, not inside it)
RECURSIVE merge_messages_abort(_, _)
merge_messages_abort(store, msgs) ==
    IF msgs = <<>> THEN store
    ELSE IF "json" \notin DOMAIN Head(msgs).content THEN store
    ELSE merge_messages_abort(merge_message(store, Head(msgs)), Tail(msgs))

\* merge_messages that scans the history from its newest message back
RECURSIVE merge_messages_newest_first(_, _)
merge_messages_newest_first(store, msgs) ==
    IF msgs = <<>> THEN store
    ELSE merge_messages_newest_first(merge_message(store, msgs[Len(msgs)]),
                                     SubSeq(msgs, 1, Len(msgs) - 1))

\* merge_messages that looks at the newest message only
merge_last_message(store, msgs) ==
    IF msgs = <<>> THEN store ELSE merge_message(store, msgs[Len(msgs)])

\* process_tool_results, lines 788-832: the scan of every message of the state
RECURSIVE merge_messages(_, _)
merge_messages(store, msgs) ==
    IF msgs = <<>> THEN store
    ELSE merge_messages(merge_message(store, Head(msgs)), Tail(msgs))

\* ------------------------------------------------------------ policy layer

\* an id no entity of the session has
Bogus == 0

IdLists(S) ==
    {<<>>} \cup {<<a>> : a \in S} \cup {p \in S \X S : p[1] # p[2]}

BogusChoice == IF upsets < MaxUpsets THEN {Bogus} ELSE {}

CharacterIdChoices == Range(Ids(characters)) \cup BogusChoice
BackgroundIdChoices == Range(Ids(backgrounds)) \cup BogusChoice
SceneIdChoices == Range(Ids(scenes)) \cup BogusChoice

Call(name, args) == [name |-> name, args |-> args]

\* The tool invocations the model may propose in the current state
PolicyCalls ==
    {Call("create_character",
          [name |-> "Knight", description |-> "a knight", prompt |-> "knight"])}
    \cup
    {Call("create_background",
          [name |-> "Castle", description |-> "a castle", prompt |-> "castle"])}
    \cup
    {Call("create_scene",
          [name |-> "Scene", description |-> "a scene", prompt |-> "compose",
           character_ids |-> cs, background_id |-> b]) :
        cs \in IdLists(CharacterIdChoices), b \in BackgroundIdChoices}
    \cup
    {Call("edit_character", [character_id |-> c, edit_description |-> "edit"]) :
        c \in CharacterIdChoices}
    \cup
    {Call("edit_background", [background_id |-> b, edit_description |-> "edit"]) :
        b \in BackgroundIdChoices}
    \cup
    {Call("edit_scene", [scene_id |-> s, edit_description |-> "edit",
                         regenerate_from_sources |-> FALSE]) :
        s \in SceneIdChoices}
    \cup
    {Call("edit_scene", [scene_id |-> s, edit_description |-> "recompose",
                         regenerate_from_sources |-> TRUE]) :
        s \in SceneIdChoices}
    \cup
    {Call("edit_scene", [scene_id |-> s, edit_description |-> "recompose",
                         regenerate_from_sources |-> TRUE,
                         new_character_ids |-> cs, new_background_id |-> b]) :
        s \in Range(Ids(scenes)), cs \in IdLists(CharacterIdChoices),
        b \in BackgroundIdChoices}
    \cup
    \* a frontend (CopilotKit) tool, not one of backend_tools
    {Call("approve_image_prompt", [artifact_type |-> "character"])}

\* the call names an id that no entity has
NamesBogus(call) ==
    LET a == call.args
    IN  \/ Get(a, "character_id", 1) = Bogus
        \/ Get(a, "background_id", 1) = Bogus
        \/ Get(a, "scene_id", 1) = Bogus
        \/ Get(a, "new_background_id", 1) = Bogus
        \/ Bogus \in Range(Get(a, "character_ids", <<>>))
        \/ Bogus \in Range(Get(a, "new_character_ids", <<>>))

\* uuid4() draws a call can make: a file name, and a create tool's new id
UuidCost(call) ==
    CASE call.name \in {"create_character", "create_background",
                        "create_scene"} -> 2
      [] call.name = "edit_scene" -> 1
      [] OTHER -> 0

\* the upsets of one policy response
ResponseUpsets(calls) ==
    Cardinality({i \in 1..Len(calls) : NamesBogus(calls[i])})
    + (IF Len(calls) > 1 THEN 1 ELSE 0)

\* The policy responses: no tool invocation, one, or (an upset) several
Responses ==
    {<<>>} \cup {<<c>> : c \in PolicyCalls}
    \cup (IF upsets < MaxUpsets
          THEN UNION {[1..n -> PolicyCalls] : n \in 2..MaxCalls}
          ELSE {})

\* HasBackendCall that takes any tool invocation for a backend one
HasAnyCall(calls) == calls # <<>>

HasBackendCall(calls) ==
    \E i \in 1..Len(calls) : calls[i].name \in backend_tool_names

\* ------------------------------------------------------------ control loop

Idle == [op |-> "none"]

Init ==
    /\ pc = "chat"
    /\ characters = <<>>
    /\ backgrounds = <<>>
    /\ scenes = <<>>
    /\ messages = <<>>
    /\ tool_calls = <<>>
    /\ running = <<>>
    /\ files = <<>>
    /\ uuid = 0
    /\ clock = 1
    /\ dispatched = 0
    /\ upsets = 0
    /\ genIn = Idle
    /\ genOut = Idle
    /\ apiKey = ""
    /\ uploads = 0

Pending == [phase |-> "pending"]

Done(content, client) ==
    [phase |-> "done", content |-> content, client |-> client]

\* os.getenv("GOOGLE_API_KEY", ""): the credential of the process
GOOGLE_API_KEY == "env-key"

\* chat_node, line 651: the key of the session state, or else the process's
chat_api_key(state_key) ==
    IF state_key # "" THEN state_key ELSE GOOGLE_API_KEY

\* chat_node, lines 765-774: the response holds a backend tool call; the
\* update carries the response and the key chat_node used
ChatToTools ==
    /\ pc = "chat"
    /\ \E calls \in Responses :
          /\ HasBackendCall(calls)
          /\ dispatched + Len(calls) <= MaxToolCalls
          /\ upsets + ResponseUpsets(calls) <= MaxUpsets
          /\ dispatched + Len(calls) + upsets + ResponseUpsets(calls)
                <= MaxEvents
          /\ uuid + SeqSum([i \in 1..Len(calls) |-> UuidCost(calls[i])])
                <= MaxUuid
          /\ tool_calls' = calls
          /\ running' = [i \in 1..Len(calls) |-> Pending]
          /\ dispatched' = dispatched + Len(calls)
          /\ upsets' = upsets + ResponseUpsets(calls)
    /\ apiKey' = chat_api_key(apiKey)
    /\ pc' = "tools"
    /\ UNCHANGED <<characters, backgrounds, scenes, messages, files, uuid,
                   clock, genIn, genOut, uploads>>

\* chat_node, lines 776-780: no backend tool call, the turn ends
ChatToEnd ==
    /\ pc = "chat"
    /\ \E calls \in Responses :
          /\ ~HasBackendCall(calls)
          /\ upsets + ResponseUpsets(calls) <= MaxUpsets
          /\ dispatched + upsets + ResponseUpsets(calls) <= MaxEvents
          /\ tool_calls' = calls
          /\ upsets' = upsets + ResponseUpsets(calls)
    /\ pc' = "end"
    /\ running' = <<>>
    /\ UNCHANGED <<characters, backgrounds, scenes, messages, files, uuid,
                   clock, dispatched, genIn, genOut, apiKey, uploads>>

\* the next user message starts the graph again at its entry point
UserTurn ==
    /\ pc = "end"
    /\ pc' = "chat"
    /\ tool_calls' = <<>>
    /\ UNCHANGED <<characters, backgrounds, scenes, messages, running, files,
                   uuid, clock, dispatched, upsets, genIn, genOut, apiKey,
                   uploads>>

\* tool_node runs the tool calls of one response as coroutines of one event
\* loop (line 850). A coroutine still runs after an exception of another one
\* has left tool_node.
Gathered == pc \in {"tools", "failed"}

\* the files a write in a worker thread is in progress on, call i's own aside
Writers(i) ==
    {running[j].file :
        j \in {k \in 1..Len(running) : k # i /\ running[k].phase = "writing"}}

Creates(call) ==
    call.name \in {"create_character", "create_background", "create_scene"}

\* Call i after a step of its synthesis client call, r being what the step
\* left. While the client call is not over the tool waits for it; once it is
\* over the tool runs on to its return: a create tool draws the uuid4 of the
\* new entity (lines 337, 371, 433) and the tool returns its record, or the
\* exception the client raised leaves the tool.
Settled(i, r) ==
    LET call == tool_calls[i]
        plan == ToolPlan(call, Snapshot)
        c == r.call
        client == [client |-> <<IF c.op = "generate" THEN "generate_image"
                                ELSE "edit_image">>]
    IN  IF c.phase # "done" \/ c.raised THEN c @@ client
        ELSE c @@ client @@
             [content |-> json_dumps(ToolResult(call, plan, c.url, r.uuid + 1)),
              returned |-> c.url]

SettledUuid(i, r) ==
    r.uuid + (IF r.call.phase = "done" /\ ~r.call.raised /\ Creates(tool_calls[i])
              THEN 1 ELSE 0)

\* tool_node starts tool call i: the tool runs up to the first suspension
\* point of its synthesis client call, or to its return when it meets none
ToolBegin(i) ==
    /\ Gathered
    /\ running[i].phase = "pending"
    /\ LET call == tool_calls[i]
           plan == ToolPlan(call, Snapshot)
           r == client_step(ClientCall(plan.do, plan.prompt,
                                       IF plan.do = "generate"
                                       THEN plan.input_images
                                       ELSE <<plan.image_url>>),
                            files, uuid, clock, "none", 0, 0, FALSE)
       IN  IF call.name \notin backend_tool_names
           THEN /\ running' = [running EXCEPT ![i] =
                       Done(NotJson("Error: not a valid tool"), <<>>)]
                /\ uuid' = uuid
           ELSE IF plan.do = "return"
           THEN /\ running' = [running EXCEPT ![i] =
                       Done(json_dumps(plan.result), <<>>)]
                /\ uuid' = uuid
           ELSE /\ running' = [running EXCEPT ![i] = Settled(i, r)]
                /\ uuid' = SettledUuid(i, r)
    /\ UNCHANGED <<pc, characters, backgrounds, scenes, messages, tool_calls,
                   files, clock, dispatched, upsets, genIn, genOut, apiKey,
                   uploads>>

\* the read of an input file returns to call i (lines 116 and 260): the tool
\* runs up to its next read or to its first request
ToolRead(i) ==
    /\ Gathered
    /\ running[i].phase = "reading"
    /\ \E data \in read_bytes(get_image_path(Head(running[i].todo)),
                              running[i].seen, files, Writers(i)) :
          running' = [running EXCEPT ![i] =
              Settled(i, client_step(running[i], files, uuid, clock, "none",
                                     data, 0, FALSE))]
    /\ UNCHANGED <<pc, characters, backgrounds, scenes, messages, tool_calls,
                   files, uuid, clock, dispatched, upsets, genIn, genOut,
                   apiKey, uploads>>

\* An answer to a call's first request that is not an image is an upset; the
\* answers to its later requests are free.
Upset(c, answer) ==
    IF c.phase = "awaiting" /\ c.attempt = 0 /\ answer # "image" THEN 1 ELSE 0

\* What call i's step can leave when the service answers its request (lines
\* 152 and 288), and when the close of its connection is over (the exit of
\* lines 148 and 287)
Resumes(i) ==
    LET c == running[i]
    IN  IF c.phase = "awaiting"
        THEN {client_step(c, files, uuid, clock, answer, 0, 0, open) :
                 answer \in {a \in Answers :
                                Upset(c, a) = 1 =>
                                   /\ upsets < MaxUpsets
                                   /\ dispatched + upsets < MaxEvents},
                 open \in BOOLEAN}
        ELSE IF c.phase = "closing"
        THEN {client_step(c, files, uuid, clock, "none", 0, 0, FALSE)}
        ELSE {}

\* the step leaves the synthesis client by an exception
Raises(r) == r.call.phase = "done" /\ r.call.raised

\* the running calls once call i is at `rec`: when rec begins a write on a
\* file another call is writing, the two writes race
WriteBegins(i, rec) ==
    LET Same(j) == /\ j # i
                   /\ rec.phase = "writing"
                   /\ running[j].phase = "writing"
                   /\ running[j].file = rec.file
    IN  [j \in 1..Len(running) |->
            IF j = i
            THEN [rec EXCEPT !.raced = \E k \in 1..Len(running) : Same(k)]
            ELSE IF Same(j) THEN [running[j] EXCEPT !.raced = TRUE]
            ELSE running[j]]

\* the service answers the request of call i (lines 152 and 288) and no
\* exception leaves the client: the tool runs up to the backoff sleep, up to
\* the write of the image, up to the close of the connection, or to its return
ToolAnswer(i) ==
    /\ Gathered
    /\ running[i].phase = "awaiting"
    /\ \E r \in Resumes(i) :
          /\ ~Raises(r)
          /\ running' = WriteBegins(i, Settled(i, r))
          /\ uuid' = SettledUuid(i, r)
          /\ upsets' = upsets + Upset(running[i], r.call.last)
    /\ UNCHANGED <<pc, characters, backgrounds, scenes, messages, tool_calls,
                   files, clock, dispatched, genIn, genOut, apiKey, uploads>>

\* the backoff sleep of call i is over (line 158): the tool runs up to its
\* next request, or, the retries exhausted, up to the close of the connection
\* or to its return
ToolWake(i) ==
    /\ Gathered
    /\ running[i].phase = "sleeping"
    /\ \E open \in BOOLEAN :
          LET r == client_step(running[i], files, uuid, clock, "none", 0, 0,
                               open)
          IN  /\ running' = [running EXCEPT ![i] = Settled(i, r)]
              /\ uuid' = SettledUuid(i, r)
    /\ UNCHANGED <<pc, characters, backgrounds, scenes, messages, tool_calls,
                   files, clock, dispatched, upsets, genIn, genOut, apiKey,
                   uploads>>

\* the write of the image returns to call i (lines 180 and 303): the tool
\* runs up to the close of the connection or to its return
ToolFinish(i) ==
    /\ Gathered
    /\ running[i].phase = "writing"
    /\ \E bytes \in write_bytes(running[i].file, running[i].raced, files),
          open \in BOOLEAN,
          now \in (IF running[i].op = "edit" THEN time_time(clock)
                   ELSE {clock}) :
          LET r == client_step(running[i], files, uuid, now, "none", 0, bytes,
                               open)
          IN  /\ running' = [running EXCEPT ![i] = Settled(i, r)]
              /\ files' = r.files
              /\ uuid' = SettledUuid(i, r)
              /\ clock' = r.clock
    /\ UNCHANGED <<pc, characters, backgrounds, scenes, messages, tool_calls,
                   dispatched, upsets, genIn, genOut, apiKey, uploads>>

\* the close of call i's connection is over (the exit of lines 148 and 287)
\* and no exception leaves the client: the tool runs up to the write of the
\* image, or to its return
ToolClose(i) ==
    /\ Gathered
    /\ running[i].phase = "closing"
    /\ \E r \in Resumes(i) :
          /\ ~Raises(r)
          /\ running' = WriteBegins(i, Settled(i, r))
          /\ uuid' = SettledUuid(i, r)
    /\ UNCHANGED <<pc, characters, backgrounds, scenes, messages, tool_calls,
                   files, clock, dispatched, upsets, genIn, genOut, apiKey,
                   uploads>>

\* an exception leaves the synthesis client of call i, on the answer to its
\* request or once its connection is closed, and tool_node answers with an
\* error ToolMessage in place of the tool's record
ToolError(i) ==
    /\ pc = "tools"
    /\ \E r \in Resumes(i) :
          /\ Raises(r)
          /\ running' = [running EXCEPT ![i] =
                 Settled(i, r) @@ [content |-> NotJson("Error: exception")]]
          /\ upsets' = upsets + Upset(running[i], r.call.last)
    /\ UNCHANGED <<pc, characters, backgrounds, scenes, messages, tool_calls,
                   files, uuid, clock, dispatched, genIn, genOut, apiKey,
                   uploads>>

\* an exception leaves the synthesis client of call i, on the answer to its
\* request or once its connection is closed, and the exception leaves
\* tool_node: the run of the graph fails
ToolAbort(i) ==
    /\ Gathered
    /\ \E r \in Resumes(i) :
          /\ Raises(r)
          /\ running' = [running EXCEPT ![i] = Settled(i, r)]
          /\ upsets' = upsets + Upset(running[i], r.call.last)
    /\ pc' = "failed"
    /\ UNCHANGED <<characters, backgrounds, scenes, messages, tool_calls,
                   files, uuid, clock, dispatched, genIn, genOut, apiKey,
                   uploads>>

ToolMessages ==
    [i \in 1..Len(tool_calls) |->
        [name |-> tool_calls[i].name, content |-> running[i].content]]

\* tool_node returns: one ToolMessage per tool call, in the order of the calls
ToolNodeReturn ==
    /\ pc = "tools"
    /\ \A i \in 1..Len(running) : running[i].phase = "done"
    /\ messages' = messages \o ToolMessages
    /\ pc' = "merge"
    /\ UNCHANGED <<characters, backgrounds, scenes, tool_calls, running, files,
                   uuid, clock, dispatched, upsets, genIn, genOut, apiKey,
                   uploads>>

\* process_tool_results, lines 783-841
ProcessResults ==
    /\ pc = "merge"
    /\ LET merged == merge_messages(Snapshot, messages)
       IN  /\ characters' = merged.characters
           /\ backgrounds' = merged.backgrounds
           /\ scenes' = merged.scenes
    /\ pc' = "chat"
    /\ tool_calls' = <<>>
    /\ running' = <<>>
    /\ UNCHANGED <<messages, files, uuid, clock, dispatched, upsets, genIn,
                   genOut, apiKey, uploads>>

\* server.py, upload_file (POST /upload), lines 69-83, for a request that
\* passed the checks of lines 46-67 (one they turn down draws no uuid4 and
\* writes nothing). The name is a new uuid4 with the extension of the client's
\* file name (70-71), and the file is copied into GENERATED_DIR under it
\* (76-77). The request is answered 500 after the draw when open() raises,
\* the extension making a path that cannot be opened (no file), and when the
\* read of the uploaded file fails midway (a partial file). The endpoint is
\* served at any time, whatever the graph is doing.
UploadFile ==
    /\ uuid' = uuid + 1
    /\ \/ /\ uploads < MaxUploads
          /\ uploads' = uploads + 1
          /\ files' = Saved(files, uuid + 1, 1)
          /\ upsets' = upsets
       \/ /\ upsets < MaxUpsets
          /\ dispatched + upsets < MaxEvents
          /\ upsets' = upsets + 1
          /\ files' \in {files, Saved(files, uuid + 1, Torn(1))}
          /\ uploads' = uploads
    /\ UNCHANGED <<pc, characters, backgrounds, scenes, messages, tool_calls,
                   running, clock, dispatched, genIn, genOut, apiKey>>

Next ==
    \/ ChatToTools
    \/ ChatToEnd
    \/ UserTurn
    \/ \E i \in 1..MaxCalls : i <= Len(running) /\ ToolBegin(i)
    \/ \E i \in 1..MaxCalls : i <= Len(running) /\ ToolRead(i)
    \/ \E i \in 1..MaxCalls : i <= Len(running) /\ ToolAnswer(i)
    \/ \E i \in 1..MaxCalls : i <= Len(running) /\ ToolWake(i)
    \/ \E i \in 1..MaxCalls : i <= Len(running) /\ ToolFinish(i)
    \/ \E i \in 1..MaxCalls : i <= Len(running) /\ ToolClose(i)
    \/ \E i \in 1..MaxCalls : i <= Len(running) /\ ToolError(i)
    \/ \E i \in 1..MaxCalls : i <= Len(running) /\ ToolAbort(i)
    \/ ToolNodeReturn
    \/ ProcessResults
    \/ UploadFile

Spec == Init /\ [][Next]_vars

\* ------------------------------------------- one cycle on a populated store

\* A session in which two characters, a background and a scene were created,
\* in that order: uuid4 draws 1..8 (file, then id, for each of them)
KnightArgs == [name |-> "Knight", description |-> "a knight", prompt |-> "knight"]

CastleArgs == [name |-> "Castle", description |-> "a castle", prompt |-> "castle"]

SceneArgs(cs) ==
    [name |-> "Scene", description |-> "a scene", prompt |-> "compose",
     character_ids |-> cs, background_id |-> 6]

\* the second character's synthesis gave an image, or none
CycleCharacters ==
    {<<create_character(KnightArgs, <<1>>, 2),
       create_character(KnightArgs, u, 4)>> : u \in {<<3>>, None}}

\* the scenes create_scene can have made of these characters and background
CycleScenes(chars, bgs) ==
    {<<create_scene(SceneArgs(cs), <<7>>, 8)>> :
        cs \in {x \in IdLists({2, 4}) :
                  ~IsError(create_scene_check(SceneArgs(x),
                               [characters |-> chars, backgrounds |-> bgs,
                                scenes |-> <<>>]))}}

\* chat_node has just routed one tool invocation to tool_node; the counters
\* of the run count from here
InitCycle ==
    /\ pc = "tools"
    /\ characters \in CycleCharacters
    /\ backgrounds = <<create_background(CastleArgs, <<5>>, 6)>>
    /\ scenes \in CycleScenes(characters, backgrounds)
    /\ messages =
          [i \in 1..2 |-> [name |-> "create_character",
                           content |-> json_dumps(characters[i])]]
          \o <<[name |-> "create_background",
                content |-> json_dumps(backgrounds[1])],
               [name |-> "create_scene", content |-> json_dumps(scenes[1])]>>
    /\ files = [f \in {1, 5, 7} \cup
                       (IF characters[2].imageUrl = None THEN {} ELSE {3})
                 |-> 1]
    /\ uuid = 8
    /\ clock = 5
    /\ dispatched = 1
    /\ upsets = 0
    /\ tool_calls \in {<<c>> : c \in {d \in PolicyCalls : HasBackendCall(<<d>>)}}
    /\ running = <<Pending>>
    /\ genIn = Idle
    /\ genOut = Idle
    /\ apiKey = chat_api_key("")
    /\ uploads = 0

NextCycle ==
    \/ \E i \in 1..MaxCalls : i <= Len(running) /\ ToolBegin(i)
    \/ \E i \in 1..MaxCalls : i <= Len(running) /\ ToolRead(i)
    \/ \E i \in 1..MaxCalls : i <= Len(running) /\ ToolAnswer(i)
    \/ \E i \in 1..MaxCalls : i <= Len(running) /\ ToolWake(i)
    \/ \E i \in 1..MaxCalls : i <= Len(running) /\ ToolFinish(i)
    \/ \E i \in 1..MaxCalls : i <= Len(running) /\ ToolClose(i)
    \/ \E i \in 1..MaxCalls : i <= Len(running) /\ ToolError(i)
    \/ \E i \in 1..MaxCalls : i <= Len(running) /\ ToolAbort(i)
    \/ ToolNodeReturn
    \/ ProcessResults
    \/ UploadFile

SpecCycle == InitCycle /\ [][NextCycle]_vars

\* ------------------------------------------- the synthesis client on its own

\* The generated directory the client is called in: files 1 and 2 exist
\* (file 2 was overwritten twice), file 3 does not
ClientFiles == (1 :> 1) @@ (2 :> 3)

\* references a caller can pass: a fresh reference, an edited one (with its
\* cache-busting token), and one whose file is gone
ClientUrls == {<<1>>, <<2, 4>>, <<3>>}

ClientInputs ==
    {[op |-> "generate", prompt |-> "compose", input_images |-> imgs,
      script |-> script] :
        imgs \in IdLists(ClientUrls), script \in Scripts}
    \cup
    {[op |-> "edit", image_url |-> u, prompt |-> "edit", script |-> script] :
        u \in ClientUrls, script \in Scripts}

InitClient ==
    /\ pc = "client"
    /\ characters = <<>>
    /\ backgrounds = <<>>
    /\ scenes = <<>>
    /\ messages = <<>>
    /\ tool_calls = <<>>
    /\ running = <<>>
    /\ files = ClientFiles
    /\ uuid = 3
    /\ clock = 5
    /\ dispatched = 0
    /\ upsets = 0
    /\ genIn \in ClientInputs
    /\ genOut = Idle
    /\ apiKey = ""
    /\ uploads = 0

\* the call as its caller makes it
ClientStart ==
    ClientCall(genIn.op, genIn.prompt,
               IF genIn.op = "generate" THEN genIn.input_images
               ELSE <<genIn.image_url>>)

\* the call where it stands
ClientNow == IF genOut = Idle THEN ClientStart ELSE genOut

\* What the call's next step, from one suspension point to the next, can
\* leave; the service answers as its script says. No other call reads or
\* writes the directory.
ClientSteps ==
    LET c == ClientNow
    IN  {client_step(c, files, uuid, now,
                     ServiceAnswer(genIn.script, c.attempt + 1), data, bytes,
                     open) :
            now \in (IF c.op = "edit" /\ c.phase = "writing"
                     THEN time_time(clock) ELSE {clock}),
            data \in (IF c.phase = "reading"
                      THEN read_bytes(get_image_path(Head(c.todo)), c.seen,
                                      files, {})
                      ELSE {0}),
            bytes \in (IF c.phase = "writing"
                       THEN write_bytes(c.file, c.raced, files)
                       ELSE {0}),
            open \in BOOLEAN}

\* generate_image, lines 84-199: the call's next step
GenerateImage ==
    /\ pc = "client"
    /\ genIn.op = "generate"
    /\ ClientNow.phase # "done"
    /\ \E r \in ClientSteps :
          /\ genOut' = r.call
          /\ files' = r.files
          /\ uuid' = r.uuid
          /\ clock' = r.clock
    /\ UNCHANGED <<pc, characters, backgrounds, scenes, messages, tool_calls,
                   running, dispatched, upsets, genIn, apiKey, uploads>>

\* edit_image, lines 235-309: the call's next step
EditImage ==
    /\ pc = "client"
    /\ genIn.op = "edit"
    /\ ClientNow.phase # "done"
    /\ \E r \in ClientSteps :
          /\ genOut' = r.call
          /\ files' = r.files
          /\ uuid' = r.uuid
          /\ clock' = r.clock
    /\ UNCHANGED <<pc, characters, backgrounds, scenes, messages, tool_calls,
                   running, dispatched, upsets, genIn, apiKey, uploads>>

NextClient == GenerateImage \/ EditImage \/ UploadFile

SpecClient == InitClient /\ [][NextClient]_vars

\* k rate limits, then a success with an image
RateThenImage(script, k) ==
    /\ \A n \in 1..k : script[n] = "rate"
    /\ script[k + 1] = "image"

\* k rate limits, then a 2xx answer that is malformed: an image part whose
\* data does not decode, or a body that is not JSON
RateThenMalformed(script, k) ==
    /\ \A n \in 1..k : script[n] = "rate"
    /\ script[k + 1] \in {"bad_image", "garbled"}

\* the generate_image call is over
Generated == genOut # Idle /\ genOut.op = "generate" /\ genOut.phase = "done"

\* the call has written nothing: the directory holds what it held before
\* the call, and files that are not the call's (POST /upload left them)
NothingSaved ==
    /\ \A f \in DOMAIN ClientFiles : files[f] = ClientFiles[f]
    /\ \A f \in DOMAIN files \ DOMAIN ClientFiles :
          genOut = Idle \/ f # genOut.file

\* C9: when the service answers rate-limit to the first k requests (k = 0, 1
\* or 2) and success with an image to request k+1, generate_image returns the
\* reference of the saved image after exactly k+1 requests, and has slept
\* 2 * 2^i after the i-th rate-limited request (i from 0): nothing for k = 0,
\* 2 for k = 1, 2 then 4 for k = 2. A malformed 2xx answer to request k+1 (an
\* image part that does not decode, a body that is not JSON) is no success:
\* the call ends after the same requests and sleeps with no reference and no
\* file.
C9_RetryThenSuccess ==
    Generated =>
        \A k \in 0..2 :
            /\ RateThenImage(genIn.script, k) =>
                  /\ genOut.url = <<genOut.file>>
                  /\ genOut.file \notin DOMAIN ClientFiles
                  /\ genOut.file \in DOMAIN files
                  /\ files[genOut.file] = 1
                  /\ ~genOut.raised
                  /\ Attempts(genOut.trace) = k + 1
                  /\ Sleeps(genOut.trace) = [i \in 1..k |-> 2 * (2 ^ (i - 1))]
            /\ RateThenMalformed(genIn.script, k) =>
                  /\ genOut.url = None
                  /\ ~genOut.raised
                  /\ ~genOut.saved
                  /\ NothingSaved
                  /\ Attempts(genOut.trace) = k + 1
                  /\ Sleeps(genOut.trace) = [i \in 1..k |-> 2 * (2 ^ (i - 1))]

C9_Witness ==
    /\ Generated
    /\ RateThenImage(genIn.script, 2)
    /\ Sleeps(genOut.trace) = <<2, 4>>
    /\ genOut.url # None

\* C10: when the service answers rate-limit to every request, generate_image
\* stops after exactly 3 requests and returns None without raising.
C10_RetriesExhausted ==
    (Generated /\ \A n \in 1..Len(genIn.script) : genIn.script[n] = "rate") =>
        /\ Attempts(genOut.trace) = 3
        /\ genOut.url = None
        /\ ~genOut.raised
        /\ ~genOut.saved

C10_Witness ==
    /\ Generated
    /\ \A n \in 1..Len(genIn.script) : genIn.script[n] = "rate"
    /\ Attempts(genOut.trace) = 3
    /\ genOut.url = None

\* k rate limits, then a non-2xx status that is not a rate limit
RateThenHttpError(script, k) ==
    /\ \A n \in 1..k : script[n] = "rate"
    /\ script[k + 1] = "http_error"

\* C11: when the service answers a generate_image request with a non-2xx
\* status other than 429, on the first, second or third attempt, that request
\* is the last one of the call and the failure leaves generate_image as an
\* exception: nothing is returned, nothing is saved, no sleep follows.
C11_HttpErrorNotRetried ==
    Generated =>
        \A k \in 0..(max_retries - 1) :
            RateThenHttpError(genIn.script, k) =>
                /\ genOut.raised
                /\ Attempts(genOut.trace) = k + 1
                /\ genOut.trace[Len(genOut.trace)] = Post
                /\ Len(Sleeps(genOut.trace)) = k
                /\ genOut.url = None
                /\ ~genOut.saved
                /\ NothingSaved

C11_Witness ==
    /\ Generated
    /\ RateThenHttpError(genIn.script, 2)
    /\ genOut.raised
    /\ Attempts(genOut.trace) = 3

\* the edit_image call is over
Edited == genOut # Idle /\ genOut.op = "edit" /\ genOut.phase = "done"

\* the file the edit call's reference names exists
EditSourceExists == get_image_path(genIn.image_url) \in DOMAIN ClientFiles

\* C12 as claimed: every call of edit_image makes exactly one request to the
\* service.
C12_EditExactlyOneRequest ==
    Edited => Attempts(genOut.trace) = 1

\* C12: edit_image never makes a second request and never sleeps; it makes
\* exactly one request when the file its reference names exists and none
\* when it does not (it returns None); a non-2xx answer to the request, a 429
\* included, leaves edit_image as an exception with nothing saved.
C12_EditSingleAttempt ==
    /\ (genOut # Idle /\ genOut.op = "edit") =>
          /\ Attempts(genOut.trace) <= 1
          /\ Sleeps(genOut.trace) = <<>>
          /\ genOut.phase # "sleeping"
    /\ Edited =>
        /\ EditSourceExists =>
              /\ Attempts(genOut.trace) = 1
              /\ genIn.script[1] \in {"rate", "http_error"} =>
                    /\ genOut.raised
                    /\ genOut.url = None
                    /\ ~genOut.saved
                    /\ NothingSaved
        /\ ~EditSourceExists =>
              /\ Attempts(genOut.trace) = 0
              /\ genOut.url = None
              /\ ~genOut.raised
              /\ NothingSaved

C12_Witness ==
    /\ Edited
    /\ EditSourceExists
    /\ genIn.script[1] = "rate"
    /\ genIn.script[2] = "image"
    /\ genOut.raised
    /\ Attempts(genOut.trace) = 1

\* ------------------------------------------------- claims on the control loop

InToolNode == pc \in {"tools", "merge"}

\* the step is process_results's: Merge hands control on
Merges == pc = "merge" /\ pc' # "merge"

\* the step is chat_node's
Chats == pc = "chat" /\ pc' # "chat"

Calls == 1..Len(tool_calls)

IsBackend(i) == tool_calls[i].name \in backend_tool_names

\* tool call i has run (at least up to its first suspension point)
Executed(i) == running[i].phase # "pending"

\* tool call i has begun and has not returned
InFlight(i) == running[i].phase \notin {"pending", "done"}

\* tool call i returned an {error} record
ReturnedError(i) ==
    /\ running[i].phase = "done"
    /\ "json" \in DOMAIN running[i].content
    /\ IsError(running[i].content.json)

\* tool call i returned a success record
ReturnedRecord(i) ==
    /\ running[i].phase = "done"
    /\ "json" \in DOMAIN running[i].content
    /\ "id" \in DOMAIN running[i].content.json

\* the id resolves to an entry of coll that has an image
Resolves(id, coll) ==
    \E k \in 1..Len(coll) :
        /\ coll[k].id = id
        /\ \A j \in 1..(k - 1) : coll[j].id # id
        /\ "imageUrl" \in DOMAIN coll[k]
        /\ coll[k].imageUrl # None

IsRegeneration(i) ==
    /\ tool_calls[i].name = "edit_scene"
    /\ tool_calls[i].args.regenerate_from_sources

\* C1: in every cycle tool_node executes at most one of the six
\* artifact-mutating tools, even when the policy response proposed several.
C1_AtMostOneToolPerCycle ==
    InToolNode =>
        Cardinality({i \in Calls : IsBackend(i) /\ Executed(i)}) <= 1

\* the image bytes call i sent to the service are not the bytes the file holds
ReadStale(i) ==
    \E k \in 1..Len(running[i].parts) :
        /\ "file" \in DOMAIN running[i].parts[k]
        /\ running[i].parts[k].data # files[running[i].parts[k].file]

\* C2: no two artifact-mutating tool executions are in flight at the same
\* time; an edit_scene regeneration does not read its source images while an
\* edit_character or edit_background of the same policy response has not yet
\* completed and been merged; so no scene is regenerated from a source image
\* that is stale when its record is merged.
C2_NoStaleRegeneration ==
    InToolNode =>
        /\ Cardinality({i \in Calls : IsBackend(i) /\ InFlight(i)}) <= 1
        /\ \A i, j \in Calls :
              (/\ IsRegeneration(i)
               /\ Executed(i)
               /\ running[i].client # <<>>
               /\ tool_calls[j].name \in {"edit_character", "edit_background"})
              => FALSE
        /\ \A i \in Calls :
              (pc = "merge" /\ IsRegeneration(i) /\ ReturnedRecord(i))
              => ~ReadStale(i)

\* a regenerated scene about to be merged was composed from bytes that an edit
\* of the same response has since overwritten
C2_StaleSceneReached ==
    /\ pc = "merge"
    /\ \E i, j \in Calls :
          /\ IsRegeneration(i)
          /\ ReturnedRecord(i)
          /\ ReadStale(i)
          /\ tool_calls[j].name \in {"edit_character", "edit_background"}
          /\ ReturnedRecord(j)

CreateTools == {"create_character", "create_background", "create_scene"}

EditTools == {"edit_character", "edit_background", "edit_scene"}

\* the collection a tool's results are merged into
Target(store, tool) ==
    CASE tool \in {"create_character", "edit_character"} -> store.characters
      [] tool \in {"create_background", "edit_background"} -> store.backgrounds
      [] OTHER -> store.scenes

CountId(coll, id) == Cardinality({k \in 1..Len(coll) : coll[k].id = id})

\* the messages that carry a create result
CreateResults ==
    {m \in Range(messages) :
        /\ m.name \in CreateTools
        /\ "json" \in DOMAIN m.content
        /\ "id" \in DOMAIN m.content.json}

\* the messages that carry a successful edit result
EditResults ==
    {m \in Range(messages) :
        /\ m.name \in EditTools
        /\ "json" \in DOMAIN m.content
        /\ IsEditSuccess(m.content.json)}

\* C3: merging a create result whose id is already in its collection leaves
\* the store unchanged, and merging the same create result once, twice or with
\* the whole message history leaves exactly one entry with that id.
C3_CreateMergeIdempotent ==
    \A m \in CreateResults :
        LET id == m.content.json.id
            once == merge_message(Snapshot, m)
            twice == merge_message(once, m)
            all == merge_messages(twice, messages)
        IN  /\ CountId(Target(Snapshot, m.name), id) > 0 => once = Snapshot
            /\ CountId(Target(once, m.name), id) = 1
            /\ twice = once
            /\ CountId(Target(all, m.name), id) = 1

C3_Witness ==
    /\ pc = "chat"
    /\ Len(messages) >= 2
    /\ \E m \in CreateResults :
          /\ m.name = "create_character"
          /\ CountId(characters, m.content.json.id) = 1

\* C4: merging a successful edit result replaces exactly the entry with the
\* result's id and leaves the collection's length and the position of every id
\* as they were; merging it into a collection that has no entry with that id
\* changes nothing.
C4_EditMergeInPlace ==
    \A m \in EditResults :
        LET r == m.content.json
            before == Target(Snapshot, m.name)
            after == Target(merge_message(Snapshot, m), m.name)
            absent == [r EXCEPT !.id = uuid + 1]
            stray == [name |-> m.name, content |-> json_dumps(absent)]
        IN  /\ Len(after) = Len(before)
            /\ \A k \in 1..Len(before) :
                  after[k] = IF before[k].id = r.id THEN r ELSE before[k]
            /\ merge_message(Snapshot, stray) = Snapshot

C4_Witness ==
    /\ pc = "chat"
    /\ Len(characters) = 2
    /\ "edited" \in DOMAIN characters[2]
    /\ "edited" \notin DOMAIN characters[1]

UniqueIds(coll) ==
    \A i, j \in 1..Len(coll) : coll[i].id = coll[j].id => i = j

\* C5: in every reachable state no two entries of one collection have the
\* same id.
C5_IdsUnique ==
    /\ UniqueIds(characters)
    /\ UniqueIds(backgrounds)
    /\ UniqueIds(scenes)

C5_Witness ==
    /\ pc = "chat"
    /\ Len(messages) >= 3
    /\ Len(characters) >= 2
    /\ Len(backgrounds) >= 1

\* C6: every step leaves the ids of each collection a prefix of what they
\* become: a collection only grows at its end, no entry is deleted or moved.
C6_AppendOnly ==
    [][/\ IsPrefix(Ids(characters), Ids(characters'))
       /\ IsPrefix(Ids(backgrounds), Ids(backgrounds'))
       /\ IsPrefix(Ids(scenes), Ids(scenes'))]_vars

C6_Witness ==
    /\ pc = "chat"
    /\ Len(characters) = 2
    /\ "edited" \in DOMAIN characters[1]
    /\ Len(backgrounds) = 1

\* an id of the call's character_ids, or its background_id, does not resolve
\* to an entry with an image
CreateSceneUnresolved(i) ==
    \/ \E id \in Range(tool_calls[i].args.character_ids) :
          ~Resolves(id, characters)
    \/ ~Resolves(tool_calls[i].args.background_id, backgrounds)

\* C7: create_scene returns an {error} record and does not call the synthesis
\* client whenever an id of character_ids, or background_id, is absent from
\* the store or names an entry without an image.
C7_CreateSceneValidates ==
    InToolNode =>
        \A i \in Calls :
            (/\ tool_calls[i].name = "create_scene"
             /\ Executed(i)
             /\ CreateSceneUnresolved(i))
            => ReturnedError(i) /\ running[i].client = <<>>

C7_Witness ==
    /\ pc = "merge"
    /\ \E i \in Calls :
          /\ tool_calls[i].name = "create_scene"
          /\ Len(tool_calls[i].args.character_ids) = 2
          /\ Bogus \in Range(tool_calls[i].args.character_ids)
          /\ Resolves(tool_calls[i].args.background_id, backgrounds)
          /\ ReturnedError(i)

\* the effective ids of regeneration call i (the override when given, else
\* the scene's own) do not all resolve to entries with an image
RegenerationUnresolved(i) ==
    LET a == tool_calls[i].args
        k == FindIndex(scenes, a.scene_id)
        char_ids == IF "new_character_ids" \in DOMAIN a
                    THEN a.new_character_ids ELSE scenes[k].characterIds
        bg_id == IF "new_background_id" \in DOMAIN a
                 THEN a.new_background_id ELSE scenes[k].backgroundId
    IN  /\ k # 0
        /\ \/ \E id \in Range(char_ids) : ~Resolves(id, characters)
           \/ ~Resolves(bg_id, backgrounds)

\* C8: edit_scene with regenerate_from_sources=true calls generate_image only
\* if every effective character id and the effective background id resolve to
\* an entry with an image; otherwise it returns an {error} record and the
\* scene is not regenerated.
C8_RegenerationValidates ==
    InToolNode =>
        \A i \in Calls :
            (IsRegeneration(i) /\ Executed(i) /\ RegenerationUnresolved(i))
            => ReturnedError(i) /\ running[i].client = <<>>

\* the service did not answer the last request of call i: a timeout or
\* another network-layer fault
NetFault(i) ==
    /\ running[i].phase = "done"
    /\ "last" \in DOMAIN running[i]
    /\ running[i].last = "net_fault"

\* C13: a timeout or network-layer fault during a call of generate_image or
\* edit_image leaves the tool as an exception that reaches tool_node; the tool
\* never returns a record (imageUrl = null, or {error}) in its place.
C13_NetFaultIsHard ==
    InToolNode =>
        \A i \in Calls : NetFault(i) => "json" \notin DOMAIN running[i].content

\* a create tool answered a network fault with a success record without image
C13_SoftNetFaultReached ==
    /\ pc = "merge"
    /\ \E i \in Calls :
          /\ NetFault(i)
          /\ tool_calls[i].name \in CreateTools
          /\ ReturnedRecord(i)
          /\ running[i].content.json.imageUrl = None

\* the messages of the cycles before the current one
PriorMessages ==
    IF pc = "merge"
    THEN SubSeq(messages, 1, Len(messages) - Len(tool_calls))
    ELSE messages

\* every id the store, the message history and the other results of the
\* cycle hold, call i's own result left out
KnownIds(i) ==
    Range(Ids(characters)) \cup Range(Ids(backgrounds)) \cup Range(Ids(scenes))
    \cup {m.content.json.id :
             m \in {n \in Range(PriorMessages) :
                       /\ "json" \in DOMAIN n.content
                       /\ "id" \in DOMAIN n.content.json}}
    \cup {running[j].content.json.id :
             j \in {k \in Calls : k # i /\ ReturnedRecord(k)}}

\* call i is a create_character or create_background whose synthesis call
\* has ended with the service's answer `answers`
CreateAnswered(i, answers) ==
    /\ tool_calls[i].name \in {"create_character", "create_background"}
    /\ running[i].phase = "done"
    /\ "last" \in DOMAIN running[i]
    /\ running[i].last \in answers

\* the record of call i carries the call's arguments, a fresh id and image_url
CreatedWith(i, image_url) ==
    /\ ReturnedRecord(i)
    /\ LET r == running[i].content.json
           a == tool_calls[i].args
       IN  /\ ~IsError(r)
           /\ r.id \notin KnownIds(i)
           /\ r.name = a.name /\ r.description = a.description
           /\ r.prompt = a.prompt
           /\ r.imageUrl = image_url

\* the create_character and create_background records of the history
SimpleCreateResults ==
    {m \in CreateResults : m.name \in {"create_character", "create_background"}}

\* the synthesis call of create_character or create_background call i
\* returned the reference of an image
CreateReturnedReference(i) ==
    /\ tool_calls[i].name \in {"create_character", "create_background"}
    /\ running[i].phase = "done"
    /\ "returned" \in DOMAIN running[i]
    /\ running[i].returned # None

\* C14: when synthesis yields no image (a 2xx answer without image part, or
\* three rate limits; also a 2xx answer that is malformed) create_character
\* and create_background return a success record with a fresh id and
\* imageUrl = null; when synthesis returns a reference the record carries a
\* fresh id and exactly that reference, whose file exists; and once Merge has
\* run every such record has exactly one entry in its collection, which for a
\* record without image is the record itself.
C14_CreateWithoutImage ==
    /\ InToolNode =>
          \A i \in Calls :
              /\ CreateAnswered(i, {"noimage", "rate", "bad_image", "garbled"})
                    => CreatedWith(i, None)
              /\ CreateReturnedReference(i) =>
                    /\ running[i].saved
                    /\ running[i].returned = <<running[i].file>>
                    /\ get_image_path(running[i].returned) \in DOMAIN files
                    /\ CreatedWith(i, running[i].returned)
    /\ pc \in {"chat", "end"} =>
          \A m \in SimpleCreateResults :
              LET r == m.content.json
                  coll == Target(Snapshot, m.name)
              IN  /\ CountId(coll, r.id) = 1
                  /\ r.imageUrl = None => \E k \in 1..Len(coll) : coll[k] = r

C14_Witness ==
    /\ pc = "chat"
    /\ Len(characters) = 1
    /\ characters[1].imageUrl = None
    /\ Len(backgrounds) = 1
    /\ backgrounds[1].imageUrl # None
    /\ Cardinality(SimpleCreateResults) = 2

\* a tool of the cycle returned an {error} record
ErrorReturned == \E i \in Calls : ReturnedError(i)

\* C15: whenever a tool of the cycle has returned an {error} record (a failed
\* validation, a failed edit or a failed regeneration), the run goes on to
\* Merge, Merge leaves characters, backgrounds and scenes exactly as they were
\* before the cycle, and control returns to chat_node.
C15_ErrorLeavesStore ==
    [][/\ (pc = "tools" /\ ErrorReturned) => pc' \in {"tools", "merge"}
       /\ (Merges /\ ErrorReturned) =>
              /\ characters' = characters
              /\ backgrounds' = backgrounds
              /\ scenes' = scenes
              /\ pc' = "chat"]_vars

IsDirectSceneEdit(i) ==
    /\ tool_calls[i].name = "edit_scene"
    /\ ~tool_calls[i].args.regenerate_from_sources

\* the scene call i names exists and has no image
SceneWithoutImage(i) ==
    \E k \in 1..Len(scenes) :
        /\ scenes[k].id = tool_calls[i].args.scene_id
        /\ \A j \in 1..(k - 1) : scenes[j].id # scenes[k].id
        /\ "imageUrl" \in DOMAIN scenes[k] => scenes[k].imageUrl = None

\* C16: edit_scene with regenerate_from_sources=false on an existing scene
\* whose imageUrl is null returns {error: "Scene has no image to edit"} and
\* calls neither generate_image nor edit_image.
C16_SceneWithoutImage ==
    InToolNode =>
        \A i \in Calls :
            (IsDirectSceneEdit(i) /\ Executed(i) /\ SceneWithoutImage(i)) =>
                /\ running[i].phase = "done"
                /\ running[i].content =
                      [json |-> [error |-> "Scene has no image to edit"]]
                /\ running[i].client = <<>>

C16_Witness ==
    /\ pc = "merge"
    /\ \E i \in Calls :
          /\ IsDirectSceneEdit(i)
          /\ SceneWithoutImage(i)
          /\ ReturnedError(i)
          /\ running[i].client = <<>>
          /\ Resolves(scenes[1].backgroundId, backgrounds)

\* call i is an edit_scene regeneration that overrides both the characters
\* and the background
IsOverride(i) ==
    /\ IsRegeneration(i)
    /\ "new_character_ids" \in DOMAIN tool_calls[i].args
    /\ "new_background_id" \in DOMAIN tool_calls[i].args

\* the image of the entry with that id, None when there is no such entry or
\* it has no image
ImageOf(id, coll) ==
    IF Resolves(id, coll)
    THEN (CHOOSE e \in Range(coll) : e.id = id).imageUrl
    ELSE None

HasImage(u) == u # None

\* the images of the override ids: the characters' in the order of
\* new_character_ids, then the background's
OverrideImages(i) ==
    LET a == tool_calls[i].args
    IN  SelectSeq([k \in 1..Len(a.new_character_ids) |->
                      ImageOf(a.new_character_ids[k], characters)]
                  \o <<ImageOf(a.new_background_id, backgrounds)>>,
                  HasImage)

\* the files of the images call i sent to the service, in the order sent
SentFiles(i) ==
    LET p == running[i].parts
    IN  [k \in 1..(Len(p) - 1) |-> p[k].file]

\* call i has sent the service a request
Requested(i) ==
    /\ running[i].client # <<>>
    /\ Attempts(running[i].trace) >= 1

\* the scene call i names, as the store holds it
SceneOf(i) == CHOOSE e \in Range(scenes) : e.id = tool_calls[i].args.scene_id

\* C17: an edit_scene regeneration with overridden character and background
\* ids hands generate_image exactly the images of the override characters, in
\* the order of new_character_ids, followed by the image of the override
\* background, and never the scene's previous image; the record it returns
\* has the scene's id, the override ids as characterIds and backgroundId, the
\* edit description as prompt and the newly generated reference as imageUrl.
C17_OverrideSources ==
    InToolNode =>
        \A i \in Calls :
            (IsOverride(i) /\ Executed(i) /\ running[i].client # <<>>) =>
                LET a == tool_calls[i].args
                    p == running[i].parts
                IN  /\ running[i].client = <<"generate_image">>
                    /\ Requested(i) =>
                          /\ p[Len(p)] = [text |-> a.edit_description]
                          /\ SentFiles(i) =
                                [k \in 1..Len(OverrideImages(i)) |->
                                    get_image_path(OverrideImages(i)[k])]
                          /\ SceneOf(i).imageUrl # None =>
                                get_image_path(SceneOf(i).imageUrl)
                                    \notin Range(SentFiles(i))
                    /\ ReturnedRecord(i) =>
                          LET r == running[i].content.json
                          IN  /\ r.id = a.scene_id
                              /\ r.characterIds = a.new_character_ids
                              /\ r.backgroundId = a.new_background_id
                              /\ r.prompt = a.edit_description
                              /\ r.imageUrl = running[i].returned
                              /\ r.imageUrl # None
                              /\ r.imageUrl # SceneOf(i).imageUrl

\* both characters in the reverse of their order in the store, replacing the
\* scene's single character
C17_Witness ==
    /\ pc = "merge"
    /\ \E i \in Calls :
          /\ IsOverride(i)
          /\ ReturnedRecord(i)
          /\ tool_calls[i].args.new_character_ids = <<4, 2>>
          /\ SceneOf(i).characterIds = <<2>>
          /\ SentFiles(i) = <<3, 1, 5>>
          /\ running[i].content.json.characterIds = <<4, 2>>

\* call i is an edit_character, an edit_background or an edit_scene with
\* regenerate_from_sources=false
IsDirectEdit(i) ==
    \/ tool_calls[i].name \in {"edit_character", "edit_background"}
    \/ IsDirectSceneEdit(i)

\* the fields a direct edit must leave alone
KeptFields(tool) ==
    IF tool = "edit_scene"
    THEN {"id", "name", "description", "prompt", "characterIds", "backgroundId"}
    ELSE {"id", "name", "description", "prompt"}

\* entry `after` is entry `before` with at most imageUrl and edited changed
OnlyImageChanged(before, after, tool) ==
    /\ DOMAIN after \subseteq DOMAIN before \cup {"edited"}
    /\ DOMAIN before \subseteq DOMAIN after
    /\ \A f \in KeptFields(tool) \cap DOMAIN before : after[f] = before[f]

\* C18: when Merge has run after a successful direct edit (edit_character,
\* edit_background, or edit_scene with regenerate_from_sources=false), the
\* stored entry of the edited entity differs from the entry before the edit in
\* imageUrl and edited only: its id, name, description and prompt, and for a
\* scene its characterIds and backgroundId, are those it had.
C18_DirectEditFrame ==
    [][Merges =>
          \A i \in Calls :
              (IsDirectEdit(i) /\ ReturnedRecord(i)) =>
                  LET tool == tool_calls[i].name
                      before == Target(Snapshot, tool)
                      after == Target([characters |-> characters',
                                       backgrounds |-> backgrounds',
                                       scenes |-> scenes'], tool)
                      k == FindIndex(before, running[i].content.json.id)
                  IN  /\ k # 0
                      /\ OnlyImageChanged(before[k], after[k], tool)]_vars

\* the response chat_node is about to store holds an invocation of one of
\* the six backend tools
BackendCallNext ==
    \E i \in 1..Len(tool_calls') : tool_calls'[i].name \in backend_tool_names

\* C19 as stated: whenever the policy response holds one or more tool
\* invocations control passes to tool_node, and the turn ends only when the
\* response holds no tool invocation.
C19_AnyToolCallDispatches ==
    [][Chats =>
          /\ tool_calls' # <<>> => pc' = "tools"
          /\ pc' = "end" => tool_calls' = <<>>]_vars

\* C19, amended: chat_node passes control to tool_node exactly when the
\* response holds an invocation of a backend tool, and then with the whole
\* response; it ends the turn exactly when the response holds no invocation
\* of a backend tool, that is none at all or frontend tools only.
C19_BackendToolCallDispatches ==
    [][Chats =>
          /\ pc' \in {"tools", "end"}
          /\ BackendCallNext <=> pc' = "tools"
          /\ ~BackendCallNext <=> pc' = "end"
          /\ pc' = "tools" => Len(running') = Len(tool_calls')]_vars

\* the turn has ended on a response that holds a frontend tool invocation
C19_Witness ==
    /\ pc = "end"
    /\ tool_calls # <<>>
    /\ \A i \in Calls : ~IsBackend(i)
    /\ Len(characters) = 1

\* message k carries a well-formed success result
IsSuccessResult(k) ==
    /\ "json" \in DOMAIN messages[k].content
    /\ \/ /\ messages[k].name \in CreateTools
          /\ "id" \in DOMAIN messages[k].content.json
       \/ /\ messages[k].name \in EditTools
          /\ IsEditSuccess(messages[k].content.json)

\* messages j and k carry results for the same entity
SameEntity(j, k) ==
    /\ Target(Snapshot, messages[j].name) = Target(Snapshot, messages[k].name)
    /\ {messages[j].name, messages[k].name} \subseteq
          {"create_character", "edit_character"}
       \/ {messages[j].name, messages[k].name} \subseteq
          {"create_background", "edit_background"}
       \/ {messages[j].name, messages[k].name} \subseteq
          {"create_scene", "edit_scene"}
    /\ messages[j].content.json.id = messages[k].content.json.id

\* the store holds every success result of the history: each entity once, as
\* the newest success result for it describes it
FullyMerged ==
    \A k \in 1..Len(messages) :
        IsSuccessResult(k) =>
            LET coll == Target(Snapshot, messages[k].name)
                id == messages[k].content.json.id
                newest == CHOOSE j \in k..Len(messages) :
                             /\ IsSuccessResult(j) /\ SameEntity(j, k)
                             /\ \A l \in (j + 1)..Len(messages) :
                                   ~(IsSuccessResult(l) /\ SameEntity(l, k))
            IN  /\ CountId(coll, id) = 1
                /\ coll[FindIndex(coll, id)] = messages[newest].content.json

\* C20: tool_node is followed by process_results and by nothing else (short
\* of a failed run), process_results runs only after tool_node and always
\* hands control to chat_node, chat_node is entered only from process_results
\* or at the start of a turn, and whenever chat_node is about to run every
\* well-formed success result of the history, those of the last cycle
\* included, is in the store.
C20_MergeBeforePolicy ==
    /\ [](pc \in {"chat", "end"} => FullyMerged)
    /\ [][/\ pc = "tools" => pc' \in {"tools", "merge", "failed"}
          /\ Merges => pc' = "chat"
          /\ (pc' = "merge" /\ pc # "merge") => pc = "tools"
          /\ (pc' = "chat" /\ pc # "chat") => pc \in {"merge", "end"}]_vars

\* chat_node runs after three tool results, an edit among them, were merged
C20_Witness ==
    /\ pc = "chat"
    /\ Len(messages) = 3
    /\ Len(characters) = 1
    /\ "edited" \in DOMAIN characters[1]
    /\ Len(backgrounds) = 1
    /\ FullyMerged

\* message k is not parseable JSON, or is a record without id
IsMalformed(k) ==
    \/ "json" \notin DOMAIN messages[k].content
    \/ "id" \notin DOMAIN messages[k].content.json

Malformed == {k \in 1..Len(messages) : IsMalformed(k)}

\* C21: a tool message that is not parseable JSON, or is a record without
\* id, changes no collection when it is merged, and does not end the scan:
\* Merge hands control to chat_node and every well-formed result of the
\* history, those after the malformed message included, is in the store.
C21_MalformedSkipped ==
    /\ [](\A k \in Malformed : merge_message(Snapshot, messages[k]) = Snapshot)
    /\ []((pc \in {"chat", "end"} /\ Malformed # {}) => FullyMerged)
    /\ [][(Merges /\ Malformed # {}) => pc' = "chat"]_vars

\* chat_node runs after a Merge that met text that is not JSON before a
\* create result
C21_Witness ==
    /\ pc = "chat"
    /\ \E k \in Malformed :
          /\ "raw" \in DOMAIN messages[k].content
          /\ \E j \in (k + 1)..Len(messages) :
                /\ IsSuccessResult(j)
                /\ messages[j].name = "create_character"
                /\ CountId(characters, messages[j].content.json.id) = 1

\* message k is the record of a create tool `tool` whose synthesis gave an
\* image
CreatedWithImage(k, tool) ==
    /\ k <= Len(messages)
    /\ messages[k].name = tool
    /\ IsSuccessResult(k)
    /\ messages[k].content.json.imageUrl # None

\* the session so far is create_character, then create_background, each with
\* an image and each merged before the next call
CharacterThenBackground ==
    /\ CreatedWithImage(1, "create_character")
    /\ CreatedWithImage(2, "create_background")
    /\ Len(PriorMessages) = 2
    /\ Len(characters) = 1 /\ Len(backgrounds) = 1 /\ scenes = <<>>

\* call i composes that character with that background, and its synthesis
\* succeeded: generate_image returned the reference of the image it saved
ComposesBoth(i) ==
    /\ tool_calls[i].name = "create_scene"
    /\ tool_calls[i].args.character_ids = <<messages[1].content.json.id>>
    /\ tool_calls[i].args.background_id = messages[2].content.json.id
    /\ running[i].phase = "done"
    /\ "returned" \in DOMAIN running[i]
    /\ running[i].returned # None

\* C22: after create_character (C1) and create_background (B1), each with
\* an image and merged, create_scene(character_ids=[C1.id],
\* background_id=B1.id) with synthesis succeeding returns a scene record with
\* characterIds = [C1.id], backgroundId = B1.id and a non-null imageUrl, and
\* the Merge that follows makes that record the last entry of scenes.
C22_ComposeScene ==
    [][(Merges /\ CharacterThenBackground /\ Len(tool_calls) = 1
          /\ ComposesBoth(1)) =>
          /\ ReturnedRecord(1)
          /\ LET r == running[1].content.json
             IN  /\ ~IsError(r)
                 /\ r.characterIds = <<characters[1].id>>
                 /\ r.backgroundId = backgrounds[1].id
                 /\ r.imageUrl # None
                 /\ r.imageUrl = running[1].returned
                 /\ get_image_path(r.imageUrl) \in DOMAIN files
                 /\ scenes' # <<>>
                 /\ scenes'[Len(scenes')] = r]_vars

\* the composed scene is in the store
C22_Witness ==
    /\ pc = "chat"
    /\ Len(messages) = 3
    /\ CreatedWithImage(1, "create_character")
    /\ CreatedWithImage(2, "create_background")
    /\ CreatedWithImage(3, "create_scene")
    /\ Len(scenes) = 1
    /\ scenes[1].characterIds = <<characters[1].id>>
    /\ scenes[1].backgroundId = backgrounds[1].id
    /\ scenes[1].imageUrl # None

\* the source images create_scene call i supplies: those of its
\* character_ids, in that order, then that of its background_id
SuppliedImages(i) ==
    LET a == tool_calls[i].args
    IN  [k \in 1..Len(a.character_ids) |->
            ImageOf(a.character_ids[k], characters)]
        \o <<ImageOf(a.background_id, backgrounds)>>

\* C23: the request of a scene composition carries one image part for every
\* source image create_scene supplied, in the order supplied (the characters
\* in character_ids order, then the background), each read from that image's
\* file, and the text prompt as its last part.
C23_PartsInCallerOrder ==
    InToolNode =>
        \A i \in Calls :
            (/\ tool_calls[i].name = "create_scene"
             /\ Executed(i)
             /\ running[i].client # <<>>) =>
                LET p == running[i].parts
                    imgs == SuppliedImages(i)
                IN  /\ \A k \in 1..Len(p) :
                          "file" \in DOMAIN p[k] =>
                              /\ k <= Len(imgs)
                              /\ imgs[k] # None
                              /\ p[k].file = get_image_path(imgs[k])
                    /\ Requested(i) =>
                          /\ Len(p) = Len(imgs) + 1
                          /\ \A k \in 1..Len(imgs) : "file" \in DOMAIN p[k]
                          /\ p[Len(p)] = [text |-> tool_calls[i].args.prompt]

\* two characters composed in the reverse of their order in the store
C23_Witness ==
    /\ InToolNode
    /\ \E i \in Calls :
          /\ tool_calls[i].name = "create_scene"
          /\ tool_calls[i].args.character_ids = <<4, 2>>
          /\ running[i].phase = "awaiting"
          /\ SentFiles(i) = <<3, 1, 5>>

\* the store after the results in msgs, oldest first, are applied to store
RECURSIVE ApplyResults(_, _)
ApplyResults(store, msgs) ==
    IF msgs = <<>> THEN store
    ELSE ApplyResults(merge_message(store, Head(msgs)), Tail(msgs))

\* the tool messages of the current cycle
CycleMessages ==
    SubSeq(messages, Len(PriorMessages) + 1, Len(messages))

\* C24: the store Merge produces is the pre-merge store with only the results
\* of the current cycle applied, and merging again the results of the earlier
\* cycles that are still in the message history leaves every collection as it
\* was before the merge.
C24_MergeIsCycleLocal ==
    [][Merges =>
          LET only == ApplyResults(Snapshot, CycleMessages)
          IN  /\ characters' = only.characters
              /\ backgrounds' = only.backgrounds
              /\ scenes' = only.scenes
              /\ ApplyResults(Snapshot, PriorMessages) = Snapshot]_vars

\* a merge with two successful edits of one character in the history of
\* earlier cycles and a new result in the current one
C24_Witness ==
    /\ pc = "merge"
    /\ \E j, k \in 1..Len(PriorMessages) :
          /\ j < k
          /\ messages[j].name = "edit_character"
          /\ IsSuccessResult(j)
          /\ IsSuccessResult(k)
          /\ SameEntity(j, k)
    /\ \E k \in Len(PriorMessages) + 1..Len(messages) : IsSuccessResult(k)

\* the files the history's results of generate_image name for the entity:
\* a result of generate_image carries a reference without a query
GeneratedFiles(tools, id) ==
    {get_image_path(messages[k].content.json.imageUrl) :
        k \in {j \in 1..Len(messages) :
                  /\ messages[j].name \in tools
                  /\ IsSuccessResult(j)
                  /\ messages[j].content.json.id = id
                  /\ Len(messages[j].content.json.imageUrl) = 1}}

\* the entry's reference has at most one token and names a file that
\* generate_image wrote for the entity
KeepsGeneratedFile(e, tools) ==
    e.imageUrl # None =>
        /\ Len(e.imageUrl) \in {1, 2}
        /\ get_image_path(e.imageUrl) \in DOMAIN files
        /\ get_image_path(e.imageUrl) \in GeneratedFiles(tools, e.id)

\* C25: a successful direct edit (edit_character, edit_background, or
\* edit_scene with regenerate_from_sources=false) returns a reference to the
\* file of the entity's reference before the edit with exactly one
\* cache-busting token; and every stored reference, however many edits it has
\* been through, has at most one token and without it names the file written
\* when the image was generated (for a character or a background: the file of
\* its create result).
C25_EditKeepsFile ==
    /\ InToolNode =>
          \A i \in Calls :
              (IsDirectEdit(i) /\ ReturnedRecord(i)) =>
                  LET r == running[i].content.json
                      before == ImageOf(r.id,
                                        Target(Snapshot, tool_calls[i].name))
                  IN  /\ before # None
                      /\ Len(r.imageUrl) = 2
                      /\ get_image_path(r.imageUrl) = get_image_path(before)
    /\ \A k \in 1..Len(characters) :
          /\ KeepsGeneratedFile(characters[k], {"create_character"})
          /\ Cardinality(GeneratedFiles({"create_character"},
                                        characters[k].id)) <= 1
    /\ \A k \in 1..Len(backgrounds) :
          /\ KeepsGeneratedFile(backgrounds[k], {"create_background"})
          /\ Cardinality(GeneratedFiles({"create_background"},
                                        backgrounds[k].id)) <= 1
    /\ \A k \in 1..Len(scenes) :
          KeepsGeneratedFile(scenes[k], {"create_scene", "edit_scene"})

\* a character edited three times in a row after its creation
C25_Witness ==
    /\ pc = "chat"
    /\ Len(characters) = 1
    /\ Len(messages) = 4
    /\ \A k \in 2..4 :
          /\ messages[k].name = "edit_character"
          /\ IsSuccessResult(k)
          /\ messages[k].content.json.id = characters[1].id
    /\ Len(characters[1].imageUrl) = 2
    /\ get_image_path(characters[1].imageUrl)
          = get_image_path(messages[1].content.json.imageUrl)

\* some entry of coll has that id
Exists(id, coll) == \E k \in 1..Len(coll) : coll[k].id = id

\* C26: in every reachable state each scene of the store has characterIds
\* that all name an entry of characters and a backgroundId that names an
\* entry of backgrounds, also after an edit_scene with overridden ids.
C26_NoDanglingReference ==
    \A k \in 1..Len(scenes) :
        /\ \A j \in 1..Len(scenes[k].characterIds) :
              Exists(scenes[k].characterIds[j], characters)
        /\ Exists(scenes[k].backgroundId, backgrounds)

\* C27: generate_image sleeps only before a retry: every sleep of a call is
\* followed by another request, so the call never ends on a sleep and sleeps
\* at most twice.
C27_SleepOnlyBeforeRetry ==
    Generated =>
        /\ \A i \in 1..Len(genOut.trace) :
              genOut.trace[i].ev = "sleep" =>
                  /\ i < Len(genOut.trace)
                  /\ genOut.trace[i + 1].ev = "post"
        /\ Len(Sleeps(genOut.trace)) <= 2

\* C28: the credential of the process never enters the session state: the
\* session's apiKey is empty or the value the caller supplied, never the
\* process-wide default.
C28_DefaultKeyStaysOut ==
    apiKey # GOOGLE_API_KEY

\* the entry has no image
NoImage(e) == Get(e, "imageUrl", None) = None

\* call i asks to edit a character or a background that is in the store
\* without an image
EditsImageless(i) ==
    \/ /\ tool_calls[i].name = "edit_character"
       /\ \E k \in 1..Len(characters) :
             /\ characters[k].id = tool_calls[i].args.character_id
             /\ NoImage(characters[k])
    \/ /\ tool_calls[i].name = "edit_background"
       /\ \E k \in 1..Len(backgrounds) :
             /\ backgrounds[k].id = tool_calls[i].args.background_id
             /\ NoImage(backgrounds[k])

\* C29: a character or a background that is in the store without an image
\* stays without one: every edit of it returns an {error} record without
\* calling the synthesis client, and no step of the loop changes its entry.
C29_ImagelessStaysImageless ==
    /\ [](InToolNode =>
            \A i \in Calls :
                (EditsImageless(i) /\ Executed(i)) =>
                    /\ ReturnedError(i)
                    /\ running[i].client = <<>>)
    /\ [][/\ \A k \in 1..Len(characters) :
               NoImage(characters[k]) => characters'[k] = characters[k]
          /\ \A k \in 1..Len(backgrounds) :
               NoImage(backgrounds[k]) => backgrounds'[k] = backgrounds[k]]_vars

\* Merge has run on the refused edit of a character created without an image
C29_Witness ==
    /\ pc = "chat"
    /\ \E k \in 1..Len(characters) : NoImage(characters[k])
    /\ Len(messages) >= 2
    /\ messages[Len(messages)].name = "edit_character"
    /\ messages[Len(messages)].content
          = json_dumps(Error("Character has no image to edit"))

====
